---- MODULE Spec2Model ----
(***************************************************************************)
(* Verification model of the odds ingestion service                        *)
(* (src/services/odds-ingestion-rust/src/main.rs).                         *)
(*                                                                         *)
(* The module holds several specifications over one set of variables:      *)
(*   SpecCache    GameCache used by concurrent callers (tokio RwLock)      *)
(*   SpecTracker  EventTracker::filter_new_events / cleanup over time      *)
(*   SpecFetch    the HTTP fetch functions behind the rate limiter         *)
(*   SpecPoll     poll_once: fetch -> filter -> fetch odds -> resolve ->   *)
(*                extract -> commit                                        *)
(*   SpecResolve  get_or_create_team, statement by statement, called by    *)
(*                two tasks at once                                        *)
(*   SpecNames    normalize_lookup_name, strip_mascot_suffixes and         *)
(*                team_name_candidates applied to typed names              *)
(*   SpecPriority get_or_create_team over a second store in which rated    *)
(*                and unrated teams match the same names                   *)
(*   SpecExtract  extract_odds_snapshot applied to markets                 *)
(*   SpecStore    store_snapshots, statement by statement                  *)
(*   SpecGames    get_or_create_game behind the GameCache                  *)
(*   SpecHealth   HealthState and the /health handler                      *)
(*   SpecHealthLocks  record_success and health_handler lock by lock, run  *)
(*                by two tasks at once                                     *)
(* A specification leaves the variables of the other parts unchanged.      *)
(***************************************************************************)
EXTENDS Integers, Sequences, FiniteSets, TLC

(***************************************************************************)
(* Bounds of the model                                                     *)
(***************************************************************************)
\* total number of cache calls started in one behaviour
MaxCalls == 4

\* number of times the clock is advanced in one behaviour
MaxTicks == 3
\* longest id list handed to filter_new_events
MaxIds == 2
\* number of filter_new_events / cleanup calls on the EventTracker
MaxTrackerCalls == 3

\* number of calls of the fetch functions in one behaviour of SpecFetch
MaxFetchCalls == 1

\* number of get_or_create_team calls started in one behaviour of SpecResolve
MaxResolveCalls == 3

\* number of pieces a typed name is put together from in SpecNames
MaxPieces == 3

\* longest list of outcomes of a market handed to extract_odds_snapshot
MaxOutcomes == 2

\* number of get_or_create_game calls in one behaviour of SpecGames
MaxGameCalls == 3

\* longest batch handed to store_snapshots in SpecStore
MaxBatch == 2

\* largest error_count reached, and number of health queries, in SpecHealth
MaxErrors == 12
MaxQueries == 2
\* number of record_success calls in SpecHealthLocks
MaxSuccesses == 2

\* the concurrent tasks that call into the GameCache
Callers == {1, 2, 3}
\* external event ids
Keys == {"evt-1", "evt-2"}

\* Option<Uuid>::None / "no caller" / "nothing returned yet"
Nil == 0
\* Result::Err returned to a caller
Err == -1

VARIABLES
    \* ---- GameCache (lines 222-224, 276-337) ----
    cache,        \* GameCache.inner: external_id -> game id (Nil = no entry)
    writer,       \* the caller that holds the RwLock write guard, or Nil
    cpc,          \* per caller: position inside its cache call
    cop,          \* per caller: the operation it is running
    ckey,         \* per caller: the external_id argument
    cres,         \* per caller: the value returned by its last finished call
    cvia,         \* per caller: the return path taken by get_or_insert_with
    nextId,       \* source of fresh ids handed out by the factory (Uuid::new_v4)
    calls,        \* number of cache calls started so far
    \* ---- history of the cache, for the properties ----
    factoryRuns,  \* per key: number of factory invocations
    everFailed,   \* per key: some factory invocation failed
    failedSince,  \* per key: a factory failed and none was invoked since
    okRet,        \* per key: ids returned by get_or_insert_with calls
    clears,       \* number of times cleanup emptied the cache
    \* ---- clock ----
    now,          \* Utc::now(), in seconds
    ticks,        \* number of clock advances so far
    \* ---- EventTracker (lines 229-274) ----
    tracker,      \* EventTracker.inner: event id -> timestamp (NoStamp = no entry)
    tcalls,       \* number of EventTracker calls so far
    lastOp,       \* the last EventTracker call: "none", "filter" or "cleanup"
    \* ---- the last filter_new_events call, for the properties ----
    lastIds,      \* its argument
    lastNew,      \* the new_ids it returned
    lastAll,      \* the all_ids it returned
    lastAt,       \* the time of the call
    prevTracker,  \* the tracker as the call found it
    \* ---- configuration (Config, lines 98-121) ----
    rate_limit_per_minute,
    \* ---- rate limiter and HTTP traffic ----
    tat,          \* the limiter's theoretical arrival time (NoStamp = fresh limiter)
    reqLog,       \* the times at which HTTP requests were sent, in order
    fcalls,       \* number of fetch calls so far
    \* ---- the last fetch call, for the properties ----
    lastFn,       \* the function called
    lastFirst,    \* the status of the first response it got
    lastResult,   \* "ok", "none" or "err"
    lastSent,     \* the number of HTTP requests it sent
    lastHeaders,  \* the Retry-After value of each response it got, or NoHeader
    \* ---- configuration read by main and poll_once (Config, lines 98-121) ----
    config,       \* enable_full, enable_h1, enable_h2, strict_team_matching, run_once
    \* ---- the outside world ----
    feed,         \* the events the odds API holds, by id
    database,     \* the relational store (self.db): a record of tables
    stream,       \* the entries of the Redis stream "odds.live", in order
    \* ---- main / poll_once ----
    ppc,          \* position of the task inside main / poll_once
    all_event_ids, new_event_ids, event_ids,   \* the locals of poll_once
    events,       \* the events fetched for the market set at hand
    idx,          \* position of the running for loop
    snapshots,    \* the snapshots extracted so far
    failCause,    \* the call whose Err ended poll_once
    ret,          \* the count poll_once returned
    \* ---- history of the cycle, for the properties ----
    requested,    \* the per-event odds requests issued: market set and id
    listResult,   \* the result of the last fetch_event_ids call
    lastFetch,    \* the fetch call that has just returned: what it met, its result
    lastGame,     \* the last pass of process_events: the ids it resolved
    \* ---- get_or_create_team run by callers that share the store ----
    resolver,     \* per caller: its position in get_or_create_team and its locals
    rcalls,       \* number of get_or_create_team calls started so far
    returned,     \* per team name: the results returned for it so far
    \* ---- the name functions (lines 1231-1352) ----
    namer,        \* a name, the function applied to it and the function's locals
    \* ---- extract_odds_snapshot (lines 895-967) ----
    extractor,    \* the market handed to the function and what it returned
    \* ---- store_snapshots (lines 1428-1472) ----
    storer,       \* the batch being stored, the open transaction, the result
    \* ---- HealthState and health_handler (lines 341-365, 1630-1657) ----
    health,       \* last_poll_time, last_poll_count, error_count
    answer,       \* the last answer of health_handler
    healthCalls,  \* where a record_success call and a health_handler call stand
    \* ---- get_or_create_game called again and again (lines 971-1074) ----
    gamer         \* per external_id: the calls made and what they returned

cacheVars == <<cache, writer, cpc, cop, ckey, cres, cvia, nextId, calls,
               factoryRuns, everFailed, failedSince, okRet, clears>>

clockVars == <<now, ticks>>

trackerVars == <<tracker, tcalls, lastOp, lastIds, lastNew, lastAll, lastAt, prevTracker>>

fetchVars == <<rate_limit_per_minute, tat, reqLog, fcalls,
               lastFn, lastFirst, lastResult, lastSent, lastHeaders>>

pollLocals == <<all_event_ids, new_event_ids, event_ids, events, idx, snapshots>>

pollHist == <<requested, listResult, lastFetch, lastGame, failCause, ret>>

pollVars == <<config, feed, ppc, pollLocals, database, stream, pollHist>>

resolveVars == <<resolver, rcalls, returned>>

nameVars == <<namer>>

extractVars == <<extractor>>

storeVars == <<storer>>

healthVars == <<health, answer, healthCalls>>

gameVars == <<gamer>>

vars == <<cacheVars, clockVars, trackerVars, fetchVars, pollVars, resolveVars, nameVars,
          extractVars, storeVars, healthVars, gameVars>>

(***************************************************************************)
(* GameCache                                                               *)
(***************************************************************************)
CacheOps == {"get", "get_or_insert_with", "cleanup"}

\* cache.len()
CacheLen(m) == Cardinality({k \in Keys : m[k] # Nil})

\* tokio::sync::RwLock: read() and write() return only while no write guard is
\* held.  A read section of the cache contains no await, so it is one step and
\* no read guard is ever held across steps.
\* The mutant of LockFree: the write guard is not held across the factory.
LockFreeAlways == TRUE

LockFree == writer = Nil

InitCache ==
    /\ cache = [k \in Keys |-> Nil]
    /\ writer = Nil
    /\ cpc = [c \in Callers |-> "idle"]
    /\ cop = [c \in Callers |-> "get"]
    /\ ckey = [c \in Callers |-> "evt-1"]
    /\ cres = [c \in Callers |-> Nil]
    /\ cvia = [c \in Callers |-> "none"]
    /\ nextId = 1
    /\ calls = 0
    /\ factoryRuns = [k \in Keys |-> 0]
    /\ everFailed = [k \in Keys |-> FALSE]
    /\ failedSince = [k \in Keys |-> FALSE]
    /\ okRet = [k \in Keys |-> {}]
    /\ clears = 0

cacheHist == <<factoryRuns, everFailed, failedSince, okRet, clears>>

\* A task starts a call of one of the cache methods.
CallStart(c, op, k) ==
    /\ cpc[c] \in {"idle", "done"}
    /\ calls < MaxCalls
    /\ calls' = calls + 1
    /\ cpc' = [cpc EXCEPT ![c] = "start"]
    /\ cop' = [cop EXCEPT ![c] = op]
    /\ ckey' = [ckey EXCEPT ![c] = k]
    /\ cres' = [cres EXCEPT ![c] = Nil]
    /\ cvia' = [cvia EXCEPT ![c] = "none"]
    /\ UNCHANGED <<cache, writer, nextId, cacheHist>>

\* GameCache::get: read lock, lookup, copy out.
Get(c) ==
    /\ cpc[c] = "start" /\ cop[c] = "get"
    /\ LockFree
    /\ cres' = [cres EXCEPT ![c] = cache[ckey[c]]]
    /\ cpc' = [cpc EXCEPT ![c] = "done"]
    /\ UNCHANGED <<cache, writer, cop, ckey, cvia, nextId, calls, cacheHist>>

\* GameCache::cleanup(max_size): write lock, clear when len > max_size.
Cleanup(c, max_size) ==
    /\ cpc[c] = "start" /\ cop[c] = "cleanup"
    /\ LockFree
    /\ IF CacheLen(cache) > max_size
         THEN /\ cache' = [k \in Keys |-> Nil]
              /\ clears' = clears + 1
         ELSE UNCHANGED <<cache, clears>>
    /\ cpc' = [cpc EXCEPT ![c] = "done"]
    /\ UNCHANGED <<writer, cop, ckey, cres, cvia, nextId, calls,
                   factoryRuns, everFailed, failedSince, okRet>>

\* get_or_insert_with, fast path: read lock, return the entry when present,
\* otherwise drop the read guard and go on to the write lock.
GoiReadPath(c) ==
    /\ cpc[c] = "start" /\ cop[c] = "get_or_insert_with"
    /\ LockFree
    /\ IF cache[ckey[c]] # Nil
         THEN /\ cres' = [cres EXCEPT ![c] = cache[ckey[c]]]
              /\ cvia' = [cvia EXCEPT ![c] = "fast"]
              /\ cpc' = [cpc EXCEPT ![c] = "done"]
              /\ okRet' = [okRet EXCEPT ![ckey[c]] = @ \cup {cache[ckey[c]]}]
         ELSE /\ cpc' = [cpc EXCEPT ![c] = "write_wait"]
              /\ UNCHANGED <<cres, cvia, okRet>>
    /\ UNCHANGED <<cache, writer, cop, ckey, nextId, calls,
                   factoryRuns, everFailed, failedSince, clears>>

\* The mutant of GoiWriteLock: the second check under the write lock is left out.
GoiWriteLockNoRecheck(c) ==
    /\ cpc[c] = "write_wait"
    /\ LockFree
    /\ writer' = c
    /\ cpc' = [cpc EXCEPT ![c] = "factory"]
    /\ factoryRuns' = [factoryRuns EXCEPT ![ckey[c]] = @ + 1]
    /\ failedSince' = [failedSince EXCEPT ![ckey[c]] = FALSE]
    /\ UNCHANGED <<cache, cop, ckey, cres, cvia, nextId, calls, okRet,
                   everFailed, clears>>

\* get_or_insert_with, slow path: take the write lock and check again; on a hit
\* return (dropping the guard), on a miss call the factory with the guard held.
GoiWriteLock(c) ==
    /\ cpc[c] = "write_wait"
    /\ LockFree
    /\ IF cache[ckey[c]] # Nil
         THEN /\ cres' = [cres EXCEPT ![c] = cache[ckey[c]]]
              /\ cvia' = [cvia EXCEPT ![c] = "recheck"]
              /\ cpc' = [cpc EXCEPT ![c] = "done"]
              /\ okRet' = [okRet EXCEPT ![ckey[c]] = @ \cup {cache[ckey[c]]}]
              /\ UNCHANGED <<writer, factoryRuns, failedSince>>
         ELSE /\ writer' = c
              /\ cpc' = [cpc EXCEPT ![c] = "factory"]
              /\ factoryRuns' = [factoryRuns EXCEPT ![ckey[c]] = @ + 1]
              /\ failedSince' = [failedSince EXCEPT ![ckey[c]] = FALSE]
              /\ UNCHANGED <<cres, cvia, okRet>>
    /\ UNCHANGED <<cache, cop, ckey, nextId, calls, everFailed, clears>>

\* The mutant of GoiFactoryErr: a failed factory leaves a placeholder entry.
GoiFactoryErrPoisons(c) ==
    /\ cpc[c] = "factory" /\ writer = c
    /\ cache' = [cache EXCEPT ![ckey[c]] = nextId]
    /\ nextId' = nextId + 1
    /\ cres' = [cres EXCEPT ![c] = Err]
    /\ cvia' = [cvia EXCEPT ![c] = "factory"]
    /\ cpc' = [cpc EXCEPT ![c] = "done"]
    /\ writer' = Nil
    /\ everFailed' = [everFailed EXCEPT ![ckey[c]] = TRUE]
    /\ failedSince' = [failedSince EXCEPT ![ckey[c]] = TRUE]
    /\ UNCHANGED <<cop, ckey, calls, factoryRuns, okRet, clears>>

\* factory().await? returns Err: the error goes to the caller, the write guard
\* is dropped, nothing was inserted.
GoiFactoryErr(c) ==
    /\ cpc[c] = "factory" /\ writer = c
    /\ cres' = [cres EXCEPT ![c] = Err]
    /\ cvia' = [cvia EXCEPT ![c] = "factory"]
    /\ cpc' = [cpc EXCEPT ![c] = "done"]
    /\ writer' = Nil
    /\ everFailed' = [everFailed EXCEPT ![ckey[c]] = TRUE]
    /\ failedSince' = [failedSince EXCEPT ![ckey[c]] = TRUE]
    /\ UNCHANGED <<cache, cop, ckey, nextId, calls, factoryRuns, okRet, clears>>

\* factory().await? returns Ok(game_id): insert, drop the guard, return the id.
\* The factory of this specification hands out a fresh id at every invocation.
GoiFactoryOk(c) ==
    /\ cpc[c] = "factory" /\ writer = c
    /\ cache' = [cache EXCEPT ![ckey[c]] = nextId]
    /\ nextId' = nextId + 1
    /\ cres' = [cres EXCEPT ![c] = nextId]
    /\ cvia' = [cvia EXCEPT ![c] = "factory"]
    /\ cpc' = [cpc EXCEPT ![c] = "done"]
    /\ writer' = Nil
    /\ okRet' = [okRet EXCEPT ![ckey[c]] = @ \cup {nextId}]
    /\ UNCHANGED <<cop, ckey, calls, factoryRuns, everFailed, failedSince, clears>>

CacheStep ==
    \/ \E c \in Callers, op \in CacheOps, k \in Keys : CallStart(c, op, k)
    \/ \E c \in Callers : Get(c)
    \/ \E c \in Callers, max_size \in {0, 1} : Cleanup(c, max_size)
    \/ \E c \in Callers : GoiReadPath(c)
    \/ \E c \in Callers : GoiWriteLock(c)
    \/ \E c \in Callers : GoiFactoryErr(c)
    \/ \E c \in Callers : GoiFactoryOk(c)

NextCache == CacheStep /\ UNCHANGED <<clockVars, trackerVars, fetchVars, pollVars, resolveVars, nameVars, extractVars, storeVars, healthVars, gameVars>>

(***************************************************************************)
(* Claims about the GameCache (checked under SpecCache)                    *)
(***************************************************************************)
GoiDone(c) == cpc[c] = "done" /\ cop[c] = "get_or_insert_with"

\* C1: for the get_or_insert_with calls on one external_id whose factory
\* succeeds (and with no cleanup emptying the cache in between), the factory is
\* executed at most once, exactly once as soon as a call has returned, and all
\* calls return the same id.
C1_FactoryOnceSameId ==
    \A k \in Keys :
        (~everFailed[k] /\ clears = 0) =>
            /\ factoryRuns[k] <= 1
            /\ Cardinality(okRet[k]) <= 1
            /\ (okRet[k] # {} => factoryRuns[k] = 1)
            /\ \A c \in Callers :
                   (GoiDone(c) /\ ckey[c] = k) => cres[c] = cache[k] /\ cres[c] # Nil

\* Three calls on the same id raced: one ran the factory, one came back from the
\* re-check under the write lock, one from the read path; same id for all.
C1_Witness ==
    \E c, d, e \in Callers :
        /\ GoiDone(c) /\ GoiDone(d) /\ GoiDone(e)
        /\ ckey[c] = ckey[d] /\ ckey[d] = ckey[e]
        /\ cvia[c] = "factory" /\ cvia[d] = "recheck" /\ cvia[e] = "fast"
        /\ cres[c] = cres[d] /\ cres[d] = cres[e] /\ cres[c] > 0
        /\ factoryRuns[ckey[c]] = 1

\* C2: a failing factory hands Err to its caller and leaves the cache as it
\* was, without an entry for the id; until a factory for that id is invoked
\* again the id has no entry and no get_or_insert_with call returns an id for it
\* (so the next call invokes its factory).
C2_FactoryFailureRetries ==
    /\ [](\A k \in Keys : failedSince[k] => cache[k] = Nil)
    /\ [][\A c \in Callers :
            /\ (cpc[c] = "factory" /\ cpc'[c] = "done" /\ cres'[c] = Err)
                  => (cache' = cache /\ cache'[ckey[c]] = Nil)
            /\ (cop[c] = "get_or_insert_with" /\ cpc[c] # "done" /\ cpc'[c] = "done"
                  /\ failedSince[ckey[c]])
                  => (cres'[c] = Err /\ cpc[c] = "factory")
            /\ (cpc[c] = "write_wait" /\ cpc'[c] # cpc[c] /\ failedSince[ckey[c]])
                  => (cpc'[c] = "factory" /\ factoryRuns'[ckey[c]] = factoryRuns[ckey[c]] + 1)
       ]_vars

\* A factory failed for an id, a later call ran the factory again and it
\* succeeded.
C2_Witness ==
    \E k \in Keys, c, d \in Callers :
        /\ everFailed[k] /\ factoryRuns[k] = 2 /\ cache[k] # Nil
        /\ GoiDone(c) /\ ckey[c] = k /\ cres[c] = Err
        /\ GoiDone(d) /\ ckey[d] = k /\ cres[d] = cache[k] /\ cvia[d] = "factory"

\* C3 as claimed: while a factory for one id is running, a get or
\* get_or_insert_with call for a different id can take its step.
C3_OtherIdNotBlocked ==
    \A c, d \in Callers :
        (cpc[c] = "factory" /\ cpc[d] = "start" /\ ckey[d] # ckey[c]
           /\ cop[d] \in {"get", "get_or_insert_with"})
            => ENABLED (Get(d) \/ GoiReadPath(d))

\* C3 as amended: while a factory is running inside get_or_insert_with, no
\* other cache call, for whatever id, makes a step; other tasks can only
\* start calls, which then wait for the lock.
C3_CacheCallsWaitForFactory ==
    [][\A c \in Callers :
          cpc[c] = "factory" =>
              \A d \in Callers \ {c} : cpc'[d] = cpc[d] \/ cpc'[d] = "start"
      ]_vars

\* A factory for one id is running while a get for another id waits.
C3_Witness ==
    \E c, d \in Callers :
        /\ cpc[c] = "factory" /\ cpc[d] = "start" /\ cop[d] = "get"
        /\ ckey[d] # ckey[c]
        /\ ~ENABLED Get(d)

(***************************************************************************)
(* Clock                                                                   *)
(***************************************************************************)
\* let threshold = Duration::from_secs(300)
Threshold == 300
\* chrono::Duration::hours(24), in seconds
RetainSeconds == 86400

\* The amounts of time that pass between two calls.
Deltas == {1, Threshold, RetainSeconds}

InitClock ==
    /\ now = 0
    /\ ticks = 0

Advance(d) ==
    /\ ticks < MaxTicks
    /\ ticks' = ticks + 1
    /\ now' = now + d

(***************************************************************************)
(* EventTracker                                                            *)
(***************************************************************************)
NoStamp == -1

\* The mutant of IsNew: the age is compared with >= instead of >.
IsNewAtThreshold(m, id, t) ==
    IF m[id] = NoStamp THEN TRUE ELSE t - m[id] >= Threshold

\* let is_new = match cache.get(id) { None => true,
\*                                    Some(&last_seen) => now - last_seen > threshold }
IsNew(m, id, t) ==
    IF m[id] = NoStamp THEN TRUE ELSE t - m[id] > Threshold

\* for id in event_ids { ... if is_new { new_ids.push(id); cache.insert(id, now) } }
RECURSIVE FilterLoop(_, _, _, _, _)
FilterLoop(m, ids, i, t, new_ids) ==
    IF i > Len(ids) THEN [cache |-> m, new_ids |-> new_ids]
    ELSE IF IsNew(m, ids[i], t)
           THEN FilterLoop([m EXCEPT ![ids[i]] = t], ids, i + 1, t,
                           Append(new_ids, ids[i]))
           ELSE FilterLoop(m, ids, i + 1, t, new_ids)

\* EventTracker::filter_new_events: (new_ids, all_ids) and the updated map.
FilterNewEvents(m, ids, t) ==
    LET r == FilterLoop(m, ids, 1, t, <<>>)
    IN  [cache |-> r.cache, new_ids |-> r.new_ids, all_ids |-> ids]

\* EventTracker::cleanup: cache.retain(|_, timestamp| *timestamp > cutoff)
TrackerRetain(m, t) ==
    [k \in Keys |-> IF m[k] # NoStamp /\ m[k] > t - RetainSeconds THEN m[k] ELSE NoStamp]

IdLists == UNION {[1..n -> Keys] : n \in 0..MaxIds}

InitTracker ==
    /\ tracker = [k \in Keys |-> NoStamp]
    /\ tcalls = 0
    /\ lastOp = "none"
    /\ lastIds = <<>>
    /\ lastNew = <<>>
    /\ lastAll = <<>>
    /\ lastAt = 0
    /\ prevTracker = [k \in Keys |-> NoStamp]

\* One call of filter_new_events; the write guard is held for the whole body,
\* which has no await after the lock is taken.
FilterCall(ids) ==
    /\ tcalls < MaxTrackerCalls
    /\ tcalls' = tcalls + 1
    /\ LET r == FilterNewEvents(tracker, ids, now)
       IN  /\ tracker' = r.cache
           /\ lastNew' = r.new_ids
           /\ lastAll' = r.all_ids
    /\ lastOp' = "filter"
    /\ lastIds' = ids
    /\ lastAt' = now
    /\ prevTracker' = tracker

\* One call of EventTracker::cleanup.
TrackerCleanup ==
    /\ tcalls < MaxTrackerCalls
    /\ tcalls' = tcalls + 1
    /\ tracker' = TrackerRetain(tracker, now)
    /\ lastOp' = "cleanup"
    /\ UNCHANGED <<lastIds, lastNew, lastAll, lastAt, prevTracker>>

NextTracker ==
    \/ \E d \in Deltas : Advance(d) /\ UNCHANGED <<cacheVars, trackerVars, fetchVars, pollVars, resolveVars, nameVars, extractVars, storeVars, healthVars, gameVars>>
    \/ \E ids \in IdLists : FilterCall(ids) /\ UNCHANGED <<cacheVars, clockVars, fetchVars, pollVars, resolveVars, nameVars, extractVars, storeVars, healthVars, gameVars>>
    \/ TrackerCleanup /\ UNCHANGED <<cacheVars, clockVars, fetchVars, pollVars, resolveVars, nameVars, extractVars, storeVars, healthVars, gameVars>>

(***************************************************************************)
(* Claims about the EventTracker (checked under SpecTracker)               *)
(***************************************************************************)
\* An id is due at time t: it has no stamp, or its stamp is more than 300 s old.
Due(m, id, t) == m[id] = NoStamp \/ m[id] + Threshold < t

\* The positions of ids that hold the first occurrence of an id that is due.
DuePositions(m, ids, t) ==
    {i \in 1..Len(ids) : Due(m, ids[i], t) /\ \A j \in 1..(i - 1) : ids[j] # ids[i]}

\* C6: new_ids holds exactly the input ids that had no stamp or a stamp more
\* than 300 seconds old when the call was made, each once, in input order, and
\* all_ids is the input list.
C6_NewIdsAreTheDueIds ==
    /\ lastAll = lastIds
    /\ {lastNew[i] : i \in 1..Len(lastNew)}
          = {id \in {lastIds[i] : i \in 1..Len(lastIds)} : Due(prevTracker, id, lastAt)}
    /\ Len(lastNew) = Cardinality(DuePositions(prevTracker, lastIds, lastAt))
    /\ \A i, j \in 1..Len(lastNew) :
           i < j => \E p, q \in DuePositions(prevTracker, lastIds, lastAt) :
                        p < q /\ lastIds[p] = lastNew[i] /\ lastIds[q] = lastNew[j]

\* A call with two ids: one stamped exactly 300 s before (not new), one
\* stamped 301 s before (new again).
C6_Witness ==
    /\ Len(lastIds) = 2 /\ lastIds[1] # lastIds[2]
    /\ prevTracker[lastIds[1]] # NoStamp
    /\ lastAt - prevTracker[lastIds[1]] = Threshold
    /\ lastAt - prevTracker[lastIds[2]] = Threshold + 1
    /\ prevTracker[lastIds[2]] # NoStamp
    /\ lastNew = <<lastIds[2]>>

\* C7 as claimed: when filter_new_events returns, every id of its argument,
\* new or not, carries the time of the call as its stamp.
C7_EveryIdStamped ==
    lastOp = "filter" =>
        \A i \in 1..Len(lastIds) : tracker[lastIds[i]] = lastAt

(***************************************************************************)
(* HTTP responses and the fetch functions                                  *)
(***************************************************************************)
\* A response as the fetch functions look at it.  status 0 stands for a
\* transport error (http_client.execute returns Err); retry_after is the value
\* of a Retry-After header that parses as u64, or NoHeader; body tells what
\* the body holds: the expected payload, text that is not JSON ("malformed"),
\* or JSON of another type, a string or null ("scalar").
NoHeader == -1

Responses ==
    { [status |-> 200, retry_after |-> NoHeader, body |-> "payload"],
      [status |-> 200, retry_after |-> NoHeader, body |-> "malformed"],
      [status |-> 200, retry_after |-> NoHeader, body |-> "scalar"],
      [status |-> 404, retry_after |-> NoHeader, body |-> "malformed"],
      [status |-> 429, retry_after |-> 0,        body |-> "malformed"],
      [status |-> 503, retry_after |-> NoHeader, body |-> "malformed"],
      [status |-> 0,   retry_after |-> NoHeader, body |-> "malformed"] }

\* status.is_success()
IsSuccess(r) == r.status >= 200 /\ r.status < 300
\* status.as_u16() == 429 || status.is_server_error()
IsRetryable(r) == r.status = 429 \/ (r.status >= 500 /\ r.status < 600)
\* Err(e) of http_client.execute
IsTransportError(r) == r.status = 0

\* 2u64.pow(attempt)
RECURSIVE Pow2(_)
Pow2(n) == IF n = 0 THEN 1 ELSE 2 * Pow2(n - 1)

\* A retry delay that ignores the Retry-After header.
RetryDelayBackoff(r, attempt) == Pow2(attempt)

\* let mut delay = 2^attempt; if let Some(ra) = Retry-After ... delay = secs
RetryDelay(r, attempt) ==
    IF r.retry_after # NoHeader THEN r.retry_after ELSE Pow2(attempt)

\* let max_attempts: u32 = 3 / 5 / 4
MaxAttemptsEventOdds == 3
MaxAttemptsEvents == 5
MaxAttemptsH1 == 4

\* The retry loop shared (in three copies) by fetch_event_odds, fetch_events and
\* fetch_event_h1_odds.  resps[i] is the response to the i-th request.  hard
\* tells what a non-retryable status and an exhausted ceiling give: an error
\* (fetch_events) or Ok(None).  The result holds the outcome, the number of
\* requests sent and the delays slept between them.
RECURSIVE RetryLoop(_, _, _, _, _, _)
RetryLoop(resps, i, attempt, max_attempts, hard, delays) ==
    LET r == resps[i]
        giveUp == [result |-> IF hard THEN "err" ELSE "none",
                   sent |-> i, delays |-> delays]
    IN  IF IsTransportError(r)
          THEN IF attempt + 1 >= max_attempts
                 THEN giveUp
                 ELSE RetryLoop(resps, i + 1, attempt + 1, max_attempts, hard,
                                Append(delays, Pow2(attempt + 1)))
        ELSE IF IsSuccess(r)
          THEN [result |-> IF r.body = "payload" THEN "ok" ELSE "err",
                sent |-> i, delays |-> delays]
        ELSE IF IsRetryable(r)
          THEN IF attempt + 1 >= max_attempts
                 THEN giveUp
                 ELSE RetryLoop(resps, i + 1, attempt + 1, max_attempts, hard,
                                Append(delays, RetryDelay(r, attempt + 1)))
        ELSE giveUp

\* fetch_event_odds: Result<Option<OddsApiEvent>>
fetch_event_odds(resps) == RetryLoop(resps, 1, 0, MaxAttemptsEventOdds, FALSE, <<>>)

\* fetch_events: Result<Vec<OddsApiEvent>>
fetch_events(resps) == RetryLoop(resps, 1, 0, MaxAttemptsEvents, TRUE, <<>>)

\* fetch_event_h1_odds: Result<Option<OddsApiEvent>>
fetch_event_h1_odds(resps) == RetryLoop(resps, 1, 0, MaxAttemptsH1, FALSE, <<>>)

\* fetch_event_ids: one request, no loop; a transport error, a status other
\* than 2xx and a body that is not JSON are errors.  The body is parsed as a
\* serde_json::Value (line 659), so JSON of any type is Ok.
fetch_event_ids(resps) ==
    LET r == resps[1]
    IN  [result |-> IF IsTransportError(r) \/ ~IsSuccess(r) THEN "err"
                    ELSE IF r.body = "malformed" THEN "err" ELSE "ok",
         sent |-> 1, delays |-> <<>>]

\* lines 660-667: the ids of a body that fetch_event_ids accepted; a value
\* that is not an array gives none
ListedIds(body, ids) == IF body = "payload" THEN ids ELSE <<>>

\* the mutant of fetch_event_h2_odds: a status other than 2xx is an error
fetch_event_h2_odds_strict(resps) ==
    LET r == resps[1]
    IN  [result |-> IF IsTransportError(r) \/ ~IsSuccess(r) THEN "err"
                    ELSE IF r.body = "payload" THEN "ok" ELSE "err",
         sent |-> 1, delays |-> <<>>]

\* fetch_event_h2_odds: one request, no loop; a transport error and a body
\* that does not parse are errors, a status other than 2xx is Ok(None).
fetch_event_h2_odds(resps) ==
    LET r == resps[1]
    IN  [result |-> IF IsTransportError(r) THEN "err"
                    ELSE IF ~IsSuccess(r) THEN "none"
                    ELSE IF r.body = "payload" THEN "ok" ELSE "err",
         sent |-> 1, delays |-> <<>>]

FetchFns == {"fetch_event_odds", "fetch_events", "fetch_event_ids",
             "fetch_event_h1_odds", "fetch_event_h2_odds"}

\* The number of responses a call of fn can consume.
MaxRequests(fn) ==
    CASE fn = "fetch_event_odds" -> MaxAttemptsEventOdds
      [] fn = "fetch_events" -> MaxAttemptsEvents
      [] fn = "fetch_event_h1_odds" -> MaxAttemptsH1
      [] OTHER -> 1

Fetch(fn, resps) ==
    CASE fn = "fetch_event_odds" -> fetch_event_odds(resps)
      [] fn = "fetch_events" -> fetch_events(resps)
      [] fn = "fetch_event_h1_odds" -> fetch_event_h1_odds(resps)
      [] fn = "fetch_event_ids" -> fetch_event_ids(resps)
      [] OTHER -> fetch_event_h2_odds(resps)

(***************************************************************************)
(* Rate limiter: RateLimiter::direct(Quota::per_minute(rate_limit))        *)
(***************************************************************************)
WindowSeconds == 60

\* Quota::per_minute(n): one cell is replenished every 60 s / n, burst n.
ReplenishInterval == WindowSeconds \div rate_limit_per_minute
BurstTolerance == ReplenishInterval * rate_limit_per_minute

\* The limiter's arrival time as a request at time t finds it.
TatAt(t) == IF tat = NoStamp THEN t + ReplenishInterval ELSE tat

\* rate_limiter.until_ready().await returns at the first instant at which a
\* cell is available.
ReadyTime(t) ==
    IF TatAt(t) - BurstTolerance > t THEN TatAt(t) - BurstTolerance ELSE t

\* The limiter state after the cell was taken at time t.
TatAfter(t) ==
    (IF TatAt(t) > t THEN TatAt(t) ELSE t) + ReplenishInterval

\* The send times of a call: the first request leaves at t0, each further one
\* after the delay slept before it.
RECURSIVE SendTimes(_, _, _)
SendTimes(t0, delays, i) ==
    IF i > Len(delays) THEN <<t0>>
    ELSE <<t0>> \o SendTimes(t0 + delays[i], delays, i + 1)

\* The values of RATE_LIMIT_PER_MINUTE the model runs with.
RateLimits == {1, 2}

InitFetch ==
    /\ rate_limit_per_minute \in RateLimits
    /\ tat = NoStamp
    /\ reqLog = <<>>
    /\ fcalls = 0
    /\ lastFn = "none"
    /\ lastFirst = 0
    /\ lastResult = "none"
    /\ lastSent = 0
    /\ lastHeaders = <<>>

\* One call of a fetch function: wait for the limiter once, then run the
\* function's requests; the clock moves by the waits.
FetchCall(fn, resps) ==
    /\ fcalls < MaxFetchCalls
    /\ fcalls' = fcalls + 1
    /\ LET t0 == ReadyTime(now)
           r == Fetch(fn, resps)
           times == SendTimes(t0, r.delays, 1)
       IN  /\ tat' = TatAfter(t0)
           /\ reqLog' = reqLog \o times
           /\ now' = times[Len(times)]
           /\ lastResult' = r.result
           /\ lastSent' = r.sent
           /\ lastHeaders' = [k \in 1..r.sent |-> resps[k].retry_after]
    /\ lastFn' = fn
    /\ lastFirst' = resps[1].status
    /\ UNCHANGED <<ticks, rate_limit_per_minute>>

\* The responses after which a retry loop sends another request.
NonTerminal == {r \in Responses : IsTransportError(r) \/ IsRetryable(r)}

\* The response sequences a call that sends up to n requests can meet: every
\* response but the last one asks for a retry.
RECURSIVE RespSeqs(_)
RespSeqs(n) ==
    IF n = 1 THEN {<<r>> : r \in Responses}
    ELSE {<<r>> : r \in Responses \ NonTerminal}
           \cup {<<r>> \o s : r \in NonTerminal, s \in RespSeqs(n - 1)}

NextFetch ==
    \E fn \in FetchFns : \E resps \in RespSeqs(MaxRequests(fn)) :
        FetchCall(fn, resps) /\ UNCHANGED <<cacheVars, trackerVars, pollVars, resolveVars, nameVars, extractVars, storeVars, healthVars, gameVars>>

(***************************************************************************)
(* Claims about the fetch layer (checked under SpecFetch)                  *)
(***************************************************************************)
\* C5 as claimed: no 60-second window holds more requests than the configured
\* quota; every attempt of every endpoint counts.  The windows that end with a
\* request are the ones to look at.
C5_RateCompliance ==
    \A j \in 1..Len(reqLog) :
        Cardinality({i \in 1..j : reqLog[i] > reqLog[j] - WindowSeconds})
            <= rate_limit_per_minute

\* The highest attempt ceiling among the other endpoints.
OtherCeilings == {MaxAttemptsEvents, MaxAttemptsH1, MaxAttemptsEventOdds}

\* C8 as claimed: a 429 or 5xx answer to the event-list request is retried; the
\* call fails on it only after a ceiling no lower than that of any other
\* endpoint is used up.
C8_EventListRetried ==
    (lastFn = "fetch_event_ids" /\ lastFirst \in {429, 503} /\ lastResult = "err")
        => \A m \in OtherCeilings : lastSent >= m

\* C33 as claimed: a retrying fetch sends at most 5 (fetch_events), 4
\* (fetch_event_h1_odds) or 3 (fetch_event_odds) requests whatever 429, 5xx
\* and transport failures it meets, and the wait before retry number k is the
\* Retry-After value of the failed response when it carries one that parses,
\* and 2^k seconds otherwise.
C33_BoundedRetries ==
    LET first == Len(reqLog) - lastSent
    IN  /\ lastFn = "fetch_events" => lastSent <= 5
        /\ lastFn = "fetch_event_h1_odds" => lastSent <= 4
        /\ lastFn = "fetch_event_odds" => lastSent <= 3
        /\ lastFn \in {"fetch_events", "fetch_event_h1_odds", "fetch_event_odds"}
              => \A k \in 1..(lastSent - 1) :
                    reqLog[first + k + 1] - reqLog[first + k]
                        = IF lastHeaders[k] # NoHeader THEN lastHeaders[k]
                          ELSE 2 ^ k

\* A fetch_events call that used all five attempts and failed: its first
\* answer was a 429 with Retry-After: 0, the others carried no header, and it
\* waited 0, 4, 8 and 16 seconds.
C33_Witness ==
    /\ lastFn = "fetch_events"
    /\ lastSent = 5
    /\ lastResult = "err"
    /\ lastFirst = 429
    /\ lastHeaders = <<0, NoHeader, NoHeader, NoHeader, NoHeader>>
    /\ \E t \in 0..MaxTicks :
          reqLog = <<t, t, t + 4, t + 12, t + 28>>

(***************************************************************************)
(* Strings.  A string is a sequence of characters, a character a one-letter *)
(* TLA+ string; the curly quotes and the en/em dashes of the source are the *)
(* characters "lsquo", "rsquo", "ndash" and "mdash".                       *)
(* Three more characters stand for text outside ASCII: "Kelvin" (U+212A,   *)
(* the Kelvin sign), "Idot" (U+0130) and "cdot" (U+0307); "tab" is U+0009. *)
(***************************************************************************)
UpperLetters ==
    <<"A", "B", "C", "D", "E", "F", "G", "H", "I", "J", "K", "L", "M",
      "N", "O", "P", "Q", "R", "S", "T", "U", "V", "W", "X", "Y", "Z">>
LowerLetters ==
    <<"a", "b", "c", "d", "e", "f", "g", "h", "i", "j", "k", "l", "m",
      "n", "o", "p", "q", "r", "s", "t", "u", "v", "w", "x", "y", "z">>
Digits == {"0", "1", "2", "3", "4", "5", "6", "7", "8", "9"}

\* char::to_lowercase on the letters of the model
LowerChar(c) ==
    IF \E i \in 1..26 : UpperLetters[i] = c
      THEN LowerLetters[CHOOSE i \in 1..26 : UpperLetters[i] = c]
      ELSE c

\* char::to_lowercase: the Kelvin sign lowers to the letter k, U+0130 to the
\* letter i followed by U+0307
char_to_lowercase(c) ==
    IF c = "Kelvin" THEN <<"k">>
    ELSE IF c = "Idot" THEN <<"i", "cdot">>
    ELSE <<LowerChar(c)>>

\* str::to_lowercase
RECURSIVE to_lowercase(_)
to_lowercase(s) ==
    IF s = <<>> THEN <<>> ELSE char_to_lowercase(Head(s)) \o to_lowercase(Tail(s))

\* char::len_utf8
len_utf8(c) ==
    IF c \in {"lsquo", "rsquo", "ndash", "mdash", "Kelvin"} THEN 3
    ELSE IF c \in {"Idot", "cdot"} THEN 2
    ELSE 1

\* str::len, the length in bytes
RECURSIVE len(_)
len(s) == IF s = <<>> THEN 0 ELSE len_utf8(Head(s)) + len(Tail(s))

\* a panic of the thread, in the place of a string
Panic == <<"panic">>

\* &s[..n]: the first n bytes of s; a panic when n is past the end of s or
\* inside one of its characters
SliceTo(s, n) ==
    IF \E k \in 0..Len(s) : len(SubSeq(s, 1, k)) = n
      THEN SubSeq(s, 1, CHOOSE k \in 0..Len(s) : len(SubSeq(s, 1, k)) = n)
      ELSE Panic

\* char::is_whitespace
IsWhitespace(c) == c \in {" ", "tab"}

\* str::trim_end
RECURSIVE trim_end(_)
trim_end(s) ==
    IF s # <<>> /\ IsWhitespace(s[Len(s)]) THEN trim_end(SubSeq(s, 1, Len(s) - 1)) ELSE s

\* str::trim_start
RECURSIVE trim_start(_)
trim_start(s) ==
    IF s # <<>> /\ IsWhitespace(s[1]) THEN trim_start(Tail(s)) ELSE s

\* str::trim
trim(s) == trim_end(trim_start(s))

\* str::ends_with
ends_with(s, suffix) ==
    /\ Len(suffix) <= Len(s)
    /\ SubSeq(s, Len(s) - Len(suffix) + 1, Len(s)) = suffix

\* str::starts_with
starts_with(s, prefix) ==
    /\ Len(prefix) <= Len(s)
    /\ SubSeq(s, 1, Len(prefix)) = prefix

\* str::split_whitespace, collected: the maximal runs of non-whitespace
RECURSIVE SplitFrom(_, _, _, _)
SplitFrom(s, i, word, words) ==
    IF i > Len(s)
      THEN IF word = <<>> THEN words ELSE Append(words, word)
    ELSE IF IsWhitespace(s[i])
      THEN SplitFrom(s, i + 1, <<>>, IF word = <<>> THEN words ELSE Append(words, word))
    ELSE SplitFrom(s, i + 1, Append(word, s[i]), words)

split_whitespace(s) == SplitFrom(s, 1, <<>>, <<>>)

\* [&str]::join(" ")
RECURSIVE JoinSpace(_)
JoinSpace(words) ==
    IF words = <<>> THEN <<>>
    ELSE IF Len(words) = 1 THEN words[1]
    ELSE words[1] \o <<" ">> \o JoinSpace(Tail(words))

\* str::replace(from, to): the non-overlapping matches, left to right
RECURSIVE replace(_, _, _)
replace(s, from, to) ==
    IF s = <<>> THEN <<>>
    ELSE IF starts_with(s, from)
      THEN to \o replace(SubSeq(s, Len(from) + 1, Len(s)), from, to)
    ELSE <<s[1]>> \o replace(Tail(s), from, to)

\* const MASCOT_SUFFIXES, split at '|'
MASCOT_SUFFIXES ==
    <<
       <<"b", "l", "u", "e", " ", "d", "e", "v", "i", "l", "s">>,
       <<"t", "a", "r", " ", "h", "e", "e", "l", "s">>,
       <<"w", "i", "l", "d", "c", "a", "t", "s">>,
       <<"t", "i", "g", "e", "r", "s">>,
       <<"b", "u", "l", "l", "d", "o", "g", "s">>,
       <<"c", "a", "v", "a", "l", "i", "e", "r", "s">>,
       <<"d", "e", "m", "o", "n", " ", "d", "e", "a", "c", "o", "n", "s">>,
       <<"w", "o", "l", "f", "p", "a", "c", "k">>,
       <<"s", "e", "m", "i", "n", "o", "l", "e", "s">>,
       <<"c", "a", "r", "d", "i", "n", "a", "l", "s">>,
       <<"h", "u", "r", "r", "i", "c", "a", "n", "e", "s">>,
       <<"f", "i", "g", "h", "t", "i", "n", "g", " ", "i", "r", "i", "s", "h">>,
       <<"p", "a", "n", "t", "h", "e", "r", "s">>,
       <<"o", "r", "a", "n", "g", "e">>, <<"h", "o", "k", "i", "e", "s">>,
       <<"y", "e", "l", "l", "o", "w", " ", "j", "a", "c", "k", "e", "t", "s">>,
       <<"e", "a", "g", "l", "e", "s">>,
       <<"j", "a", "y", "h", "a", "w", "k", "s">>, <<"b", "e", "a", "r", "s">>,
       <<"r", "e", "d", " ", "r", "a", "i", "d", "e", "r", "s">>,
       <<"h", "o", "r", "n", "e", "d", " ", "f", "r", "o", "g", "s">>,
       <<"c", "o", "w", "b", "o", "y", "s">>,
       <<"c", "y", "c", "l", "o", "n", "e", "s">>,
       <<"m", "o", "u", "n", "t", "a", "i", "n", "e", "e", "r", "s">>,
       <<"l", "o", "n", "g", "h", "o", "r", "n", "s">>,
       <<"s", "o", "o", "n", "e", "r", "s">>,
       <<"c", "o", "u", "g", "a", "r", "s">>,
       <<"k", "n", "i", "g", "h", "t", "s">>,
       <<"b", "e", "a", "r", "c", "a", "t", "s">>,
       <<"b", "o", "i", "l", "e", "r", "m", "a", "k", "e", "r", "s">>,
       <<"w", "o", "l", "v", "e", "r", "i", "n", "e", "s">>,
       <<"s", "p", "a", "r", "t", "a", "n", "s">>,
       <<"h", "o", "o", "s", "i", "e", "r", "s">>,
       <<"f", "i", "g", "h", "t", "i", "n", "g", " ", "i", "l", "l", "i", "n", "i">>,
       <<"b", "u", "c", "k", "e", "y", "e", "s">>,
       <<"h", "a", "w", "k", "e", "y", "e", "s">>,
       <<"b", "a", "d", "g", "e", "r", "s">>,
       <<"g", "o", "l", "d", "e", "n", " ", "g", "o", "p", "h", "e", "r", "s">>,
       <<"n", "i", "t", "t", "a", "n", "y", " ", "l", "i", "o", "n", "s">>,
       <<"s", "c", "a", "r", "l", "e", "t", " ", "k", "n", "i", "g", "h", "t", "s">>,
       <<"t", "e", "r", "r", "a", "p", "i", "n", "s">>,
       <<"c", "o", "r", "n", "h", "u", "s", "k", "e", "r", "s">>,
       <<"b", "r", "u", "i", "n", "s">>, <<"t", "r", "o", "j", "a", "n", "s">>,
       <<"d", "u", "c", "k", "s">>, <<"h", "u", "s", "k", "i", "e", "s">>,
       <<"c", "r", "i", "m", "s", "o", "n", " ", "t", "i", "d", "e">>,
       <<"v", "o", "l", "u", "n", "t", "e", "e", "r", "s">>,
       <<"r", "a", "z", "o", "r", "b", "a", "c", "k", "s">>,
       <<"g", "a", "t", "o", "r", "s">>, <<"r", "e", "b", "e", "l", "s">>,
       <<"g", "a", "m", "e", "c", "o", "c", "k", "s">>,
       <<"c", "o", "m", "m", "o", "d", "o", "r", "e", "s">>,
       <<"a", "g", "g", "i", "e", "s">>,
       <<"s", "u", "n", " ", "d", "e", "v", "i", "l", "s">>,
       <<"b", "u", "f", "f", "a", "l", "o", "e", "s">>, <<"u", "t", "e", "s">>,
       <<"g", "o", "l", "d", "e", "n", " ", "e", "a", "g", "l", "e", "s">>,
       <<"f", "r", "i", "a", "r", "s">>, <<"p", "i", "r", "a", "t", "e", "s">>,
       <<"r", "e", "d", " ", "s", "t", "o", "r", "m">>,
       <<"m", "u", "s", "k", "e", "t", "e", "e", "r", "s">>,
       <<"h", "o", "y", "a", "s">>,
       <<"b", "l", "u", "e", " ", "d", "e", "m", "o", "n", "s">>,
       <<"m", "u", "s", "t", "a", "n", "g", "s">>,
       <<"g", "o", "l", "d", "e", "n", " ", "h", "u", "r", "r", "i", "c", "a", "n", "e">>,
       <<"r", "a", "t", "t", "l", "e", "r", "s">>, <<"4", "9", "e", "r", "s">>,
       <<"o", "w", "l", "s">>, <<"b", "r", "o", "n", "c", "o", "s">>,
       <<"w", "o", "l", "f", " ", "p", "a", "c", "k">>,
       <<"a", "z", "t", "e", "c", "s">>, <<"r", "a", "m", "s">>,
       <<"l", "o", "b", "o", "s">>, <<"g", "a", "e", "l", "s">>,
       <<"d", "o", "n", "s">>, <<"w", "a", "v", "e", "s">>,
       <<"l", "i", "o", "n", "s">>, <<"p", "i", "l", "o", "t", "s">>,
       <<"t", "o", "r", "e", "r", "o", "s">>, <<"f", "l", "y", "e", "r", "s">>,
       <<"b", "i", "l", "l", "i", "k", "e", "n", "s">>,
       <<"s", "p", "i", "d", "e", "r", "s">>,
       <<"b", "o", "n", "n", "i", "e", "s">>,
       <<"e", "x", "p", "l", "o", "r", "e", "r", "s">>,
       <<"d", "u", "k", "e", "s">>,
       <<"c", "o", "l", "o", "n", "i", "a", "l", "s">>,
       <<"m", "i", "n", "u", "t", "e", "m", "e", "n">>,
       <<"h", "a", "w", "k", "s">>, <<"r", "a", "m", "b", "l", "e", "r", "s">>,
       <<"a", "n", "t", "e", "a", "t", "e", "r", "s">>,
       <<"h", "i", "g", "h", "l", "a", "n", "d", "e", "r", "s">>,
       <<"g", "a", "u", "c", "h", "o", "s">>,
       <<"t", "r", "i", "t", "o", "n", "s">>, <<"t", "i", "t", "a", "n", "s">>,
       <<"m", "a", "t", "a", "d", "o", "r", "s">>,
       <<"l", "a", "n", "c", "e", "r", "s">>,
       <<"h", "o", "r", "n", "e", "t", "s">>,
       <<"p", "r", "i", "v", "a", "t", "e", "e", "r", "s">>,
       <<"s", "e", "a", "h", "a", "w", "k", "s">>,
       <<"d", "e", "l", "t", "a", " ", "d", "e", "v", "i", "l", "s">>,
       <<"m", "o", "n", "a", "r", "c", "h", "s">>,
       <<"m", "i", "n", "e", "r", "s">>,
       <<"m", "e", "a", "n", " ", "g", "r", "e", "e", "n">>,
       <<"r", "o", "a", "d", "r", "u", "n", "n", "e", "r", "s">>,
       <<"b", "e", "a", "r", "k", "a", "t", "s">>,
       <<"f", "l", "a", "m", "e", "s">>,
       <<"m", "o", "u", "n", "t", "a", "i", "n", " ", "h", "a", "w", "k", "s">>,
       <<"l", "e", "o", "p", "a", "r", "d", "s">>,
       <<"r", "a", "i", "d", "e", "r", "s">>,
       <<"c", "r", "u", "s", "a", "d", "e", "r", "s">>,
       <<"t", "e", "r", "r", "i", "e", "r", "s">>,
       <<"h", "i", "l", "l", "t", "o", "p", "p", "e", "r", "s">>,
       <<"b", "l", "u", "e", " ", "r", "a", "i", "d", "e", "r", "s">>,
       <<"t", "h", "u", "n", "d", "e", "r", "i", "n", "g", " ", "h", "e", "r", "d">>,
       <<"r", "e", "d", " ", "w", "o", "l", "v", "e", "s">>,
       <<"c", "h", "a", "n", "t", "i", "c", "l", "e", "e", "r", "s">>,
       <<"s", "y", "c", "a", "m", "o", "r", "e", "s">>,
       <<"r", "e", "d", "b", "i", "r", "d", "s">>,
       <<"s", "a", "l", "u", "k", "i", "s">>,
       <<"b", "e", "a", "c", "o", "n", "s">>,
       <<"p", "u", "r", "p", "l", "e", " ", "a", "c", "e", "s">>,
       <<"b", "r", "a", "v", "e", "s">>,
       <<"g", "o", "l", "d", "e", "n", " ", "g", "r", "i", "z", "z", "l", "i", "e", "s">>,
       <<"v", "i", "k", "i", "n", "g", "s">>,
       <<"p", "h", "o", "e", "n", "i", "x">>,
       <<"p", "e", "n", "g", "u", "i", "n", "s">>,
       <<"j", "a", "g", "u", "a", "r", "s">>, <<"n", "o", "r", "s", "e">>,
       <<"l", "u", "m", "b", "e", "r", "j", "a", "c", "k", "s">>,
       <<"m", "a", "v", "e", "r", "i", "c", "k", "s">>,
       <<"i", "s", "l", "a", "n", "d", "e", "r", "s">>,
       <<"t", "e", "x", "a", "n", "s">>,
       <<"s", "e", "a", "w", "o", "l", "v", "e", "s">>,
       <<"g", "r", "e", "a", "t", " ", "d", "a", "n", "e", "s">>,
       <<"j", "a", "s", "p", "e", "r", "s">>,
       <<"r", "e", "d", " ", "f", "o", "x", "e", "s">>,
       <<"s", "a", "i", "n", "t", "s">>,
       <<"g", "o", "l", "d", "e", "n", " ", "g", "r", "i", "f", "f", "i", "n", "s">>,
       <<"p", "e", "a", "c", "o", "c", "k", "s">>, <<"s", "t", "a", "g", "s">>,
       <<"b", "r", "o", "n", "c", "s">>, <<"s", "h", "a", "r", "k", "s">>,
       <<"r", "e", "d", " ", "f", "l", "a", "s", "h">> >>

(***************************************************************************)
(* Team names: normalisation, mascot stripping, lookup candidates.         *)
(***************************************************************************)
\* normalize_lookup_name, the loop over name.chars()
RECURSIVE NormalizeChars(_, _, _, _)
NormalizeChars(name, i, paren_depth, out) ==
    IF i > Len(name) THEN out
    ELSE LET ch == name[i] IN
         IF ch = "(" THEN NormalizeChars(name, i + 1, paren_depth + 1, out)
         ELSE IF ch = ")"
           THEN NormalizeChars(name, i + 1,
                               IF paren_depth > 0 THEN paren_depth - 1 ELSE paren_depth, out)
         ELSE IF paren_depth > 0 THEN NormalizeChars(name, i + 1, paren_depth, out)
         ELSE IF ch \in {"rsquo", "lsquo"}
           THEN NormalizeChars(name, i + 1, paren_depth, Append(out, "'"))
         ELSE IF ch \in {"ndash", "mdash", "-"}
           THEN NormalizeChars(name, i + 1, paren_depth, Append(out, " "))
         ELSE IF ch = "." THEN NormalizeChars(name, i + 1, paren_depth, out)
         ELSE NormalizeChars(name, i + 1, paren_depth, Append(out, ch))

\* the mutant of normalize_lookup_name: the whitespace is left as the loop
\* over the characters made it
normalize_lookup_name_loop_only(name) == NormalizeChars(name, 1, 0, <<>>)

normalize_lookup_name(name) ==
    trim(JoinSpace(split_whitespace(NormalizeChars(name, 1, 0, <<>>))))

normalize_team_name(name) == normalize_lookup_name(name)

\* the mutant of Matching: a suffix matches without the space before it
MatchingAnyEnding(lowered) ==
    {i \in 1..Len(MASCOT_SUFFIXES) :
        /\ lowered # trim(MASCOT_SUFFIXES[i])
        /\ ends_with(lowered, trim(MASCOT_SUFFIXES[i]))}

\* the inner for loop of strip_mascot_suffixes: the positions of the suffixes
\* that are not skipped and end the lowered name after a space
Matching(lowered) ==
    {i \in 1..Len(MASCOT_SUFFIXES) :
        LET suffix == trim(MASCOT_SUFFIXES[i]) IN
        /\ suffix # <<>>
        /\ lowered # suffix
        /\ ends_with(lowered, <<" ">> \o suffix)}

\* the value of best after the loop: a later suffix replaces an earlier one
\* only when it is strictly longer; <<>> stands for None
BestSuffix(lowered) ==
    LET Longest(m, suffixes) ==
            IF m = {} THEN <<>>
            ELSE trim(suffixes[
                   CHOOSE i \in m : \A j \in m :
                       \/ Len(trim(suffixes[j])) < Len(trim(suffixes[i]))
                       \/ (Len(trim(suffixes[j])) = Len(trim(suffixes[i])) /\ i <= j)])
    IN  Longest(Matching(lowered), MASCOT_SUFFIXES)

\* one pass of the outer loop of strip_mascot_suffixes: "break" leaves the
\* loop, "push" goes round with the new current, "panic" is the slice at
\* line 1305 failing
StripPass(current) ==
    LET new_len(lowered, suffix) ==
            IF len(lowered) >= len(suffix) THEN len(lowered) - len(suffix) ELSE 0
        Trimmed(trimmed) ==
            IF trimmed = <<>> \/ trimmed = current
              THEN [kind |-> "break", current |-> current]
              ELSE [kind |-> "push", current |-> trimmed]
        Sliced(slice) ==
            IF slice = Panic THEN [kind |-> "panic", current |-> current]
            ELSE Trimmed(trim_end(slice))
        Cut(lowered, suffix) ==
            IF suffix = <<>> THEN [kind |-> "break", current |-> current]
            ELSE Sliced(SliceTo(current, new_len(lowered, suffix)))
        Lowered(lowered) == Cut(lowered, BestSuffix(lowered))
    IN  Lowered(to_lowercase(current))

\* a call that panicked, in the place of the list it would return
Panicked == <<Panic>>

\* the outer loop of strip_mascot_suffixes
RECURSIVE StripLoop(_, _)
StripLoop(current, out) ==
    LET Pass(p) ==
            IF p.kind = "push" THEN StripLoop(p.current, Append(out, p.current))
            ELSE IF p.kind = "panic" THEN Panicked
            ELSE out
    IN  Pass(StripPass(current))

strip_mascot_suffixes(name) == StripLoop(trim(name), <<>>)

\* the match of expand_prefix_abbrev; <<>> stands for "no expansion"
Expansion(first) ==
    IF first \in {<<"E">>, <<"E", ".">>} THEN <<"E", "a", "s", "t", "e", "r", "n">>
    ELSE IF first \in {<<"W">>, <<"W", ".">>} THEN <<"W", "e", "s", "t", "e", "r", "n">>
    ELSE IF first \in {<<"N">>, <<"N", ".">>} THEN <<"N", "o", "r", "t", "h", "e", "r", "n">>
    ELSE IF first \in {<<"S">>, <<"S", ".">>} THEN <<"S", "o", "u", "t", "h", "e", "r", "n">>
    ELSE IF first \in {<<"C">>, <<"C", ".">>} THEN <<"C", "e", "n", "t", "r", "a", "l">>
    ELSE IF first \in {<<"M", "t">>, <<"M", "t", ".">>} THEN <<"M", "o", "u", "n", "t">>
    ELSE <<>>

\* expand_prefix_abbrev; <<>> stands for None
expand_prefix_abbrev(s) ==
    LET parts == split_whitespace(s) IN
    IF parts = <<>> THEN <<>>
    ELSE LET expanded == Expansion(parts[1])
             rest     == Tail(parts)
         IN  IF expanded = <<>> \/ rest = <<>> THEN <<>>
             ELSE expanded \o <<" ">> \o JoinSpace(rest)

\* the closure add_variants of team_name_candidates
add_variants(s, out) ==
    LET Push(t, expanded) ==
            IF t = <<>> THEN out
            ELSE IF expanded # <<>> THEN Append(Append(out, t), expanded)
            ELSE Append(out, t)
    IN  Push(trim(s), expand_prefix_abbrev(s))

RECURSIVE AddAllVariants(_, _)
AddAllVariants(strs, out) ==
    IF strs = <<>> THEN out
    ELSE AddAllVariants(Tail(strs), add_variants(Head(strs), out))

\* the mutant of Dedupe: every entry is retained
DedupeKeepAll(strs, seen, out) == strs

\* out.retain(|s| seen.insert(s.to_lowercase()))
RECURSIVE Dedupe(_, _, _)
Dedupe(strs, seen, out) ==
    IF strs = <<>> THEN out
    ELSE IF to_lowercase(Head(strs)) \in seen THEN Dedupe(Tail(strs), seen, out)
    ELSE Dedupe(Tail(strs), seen \cup {to_lowercase(Head(strs))}, Append(out, Head(strs)))

S_State == <<" ", "S", "t", "a", "t", "e">>
S_St == <<" ", "S", "t", ".">>

\* lines 1232-1264 of team_name_candidates: out as it is before the retain
GeneratedCandidates(team_name) ==
    LET out0(raw) == IF raw # <<>> THEN <<raw>> ELSE <<>>
        out1(raw, cleaned, stripped) ==
            IF cleaned # <<>>
              THEN AddAllVariants(stripped, add_variants(cleaned, out0(raw)))
              ELSE out0(raw)
        out2(cleaned, state_abbrev, out) ==
            IF state_abbrev # <<>> /\ state_abbrev # cleaned
              THEN add_variants(state_abbrev, out)
              ELSE out
        Stripped(raw, cleaned, stripped) ==
            IF stripped = Panicked THEN Panicked
            ELSE out2(cleaned, replace(cleaned, S_State, S_St),
                      out1(raw, cleaned, stripped))
        Cleaned(raw, cleaned) ==
            Stripped(raw, cleaned,
                     IF cleaned # <<>> THEN strip_mascot_suffixes(cleaned) ELSE <<>>)
        Raw(raw) == Cleaned(raw, normalize_lookup_name(raw))
    IN  Raw(trim(team_name))

\* lines 1266-1269 of team_name_candidates: the retain, and the return of out
RetainFirst(out) == IF out = Panicked THEN Panicked ELSE Dedupe(out, {}, <<>>)

team_name_candidates(team_name) == RetainFirst(GeneratedCandidates(team_name))

(***************************************************************************)
(* The name functions applied to typed names                               *)
(***************************************************************************)
\* what a name is typed from: words, mascots, punctuation, whitespace and
\* characters outside ASCII
Pieces ==
    { <<" ", "B", "l", "u", "e", " ", "D", "e", "v", "i", "l", "s">>,
      <<" ", "T", "i", "g", "e", "r", "s">>,
      <<" ", "R", "e", "d", "h", "a", "w", "k", "s">>,
      <<"F", "l", "o", "r", "i", "d", "a", " ", "A", "&", "M">>,
      <<" ", "S", "t", "a", "t", "e">>,
      <<" ">>, <<"tab">>, <<"(">>, <<")">>, <<".">>, <<"-">>,
      <<"rsquo", "ndash">>, <<"lsquo", "mdash">>,
      <<"Kelvin">>, <<"Idot">> }

\* no function applied yet, nothing typed
IdleNamer ==
    [pc |-> "typing", pieces |-> 0, input |-> <<>>, name |-> <<>>, applied |-> 0,
     current |-> <<>>, out |-> <<>>, cleaned |-> <<>>, generated |-> <<>>,
     candidates |-> <<>>]

InitNames == namer = IdleNamer

\* the next piece of the name
TypePiece(piece) ==
    /\ namer.pc = "typing"
    /\ namer.pieces < MaxPieces
    /\ namer' = [namer EXCEPT !.pieces = @ + 1, !.input = @ \o piece,
                              !.name = @ \o piece]

\* normalize_lookup_name applied to the name, and to its own result
Normalize ==
    /\ namer.pc \in {"typing", "normalized"}
    /\ namer.applied < 2
    /\ namer' = [namer EXCEPT !.pc = "normalized", !.applied = @ + 1,
                              !.name = normalize_lookup_name(@)]

\* lines 1274-1275: strip_mascot_suffixes is called with the name
StartStrip ==
    /\ namer.pc = "typing"
    /\ namer' = [namer EXCEPT !.pc = "stripping", !.current = trim(namer.name),
                              !.out = <<>>]

\* lines 1277-1311: one pass of the loop
StripStep ==
    LET Pass(p) ==
            IF p.kind = "push"
              THEN [namer EXCEPT !.current = p.current, !.out = Append(@, p.current)]
            ELSE IF p.kind = "panic" THEN [namer EXCEPT !.pc = "panicked"]
            ELSE [namer EXCEPT !.pc = "stripped"]
    IN  /\ namer.pc = "stripping"
        /\ namer' = Pass(StripPass(namer.current))

\* team_name_candidates applied to the name; cleaned and out are its
\* normalized name and what strip_mascot_suffixes made of it, generated is
\* its list before the retain
CandidatesCall ==
    LET Called(cleaned, generated) ==
            [namer EXCEPT !.pc = "candidates", !.cleaned = cleaned,
                          !.out = IF cleaned # <<>> THEN strip_mascot_suffixes(cleaned)
                                  ELSE <<>>,
                          !.generated = generated,
                          !.candidates = RetainFirst(generated)]
    IN  /\ namer.pc = "typing"
        /\ namer' = Called(normalize_lookup_name(trim(namer.name)),
                           GeneratedCandidates(namer.name))

NamesStep ==
    \/ \E piece \in Pieces : TypePiece(piece)
    \/ Normalize
    \/ StartStrip
    \/ StripStep
    \/ CandidatesCall

NextNames ==
    /\ NamesStep
    /\ UNCHANGED <<cacheVars, clockVars, trackerVars, fetchVars, pollVars, resolveVars,
                   extractVars, storeVars, healthVars, gameVars>>

(***************************************************************************)
(* The feed: what the odds API holds, and the seeded store                 *)
(***************************************************************************)
\* event.commence_time of an event that carries none
NoTime == -1

S_Duke == <<"D", "u", "k", "e">>
S_DukeBlueDevils ==
    <<"D", "u", "k", "e", " ", "B", "l", "u", "e", " ", "D", "e", "v", "i", "l", "s">>
S_NorthCarolina ==
    <<"N", "o", "r", "t", "h", " ", "C", "a", "r", "o", "l", "i", "n", "a">>
S_NorthCarolinaTarHeels ==
    <<"N", "o", "r", "t", "h", " ", "C", "a", "r", "o", "l", "i", "n", "a", " ", "T", "a", "r", " ", "H", "e", "e", "l", "s">>
S_MichiganSt ==
    <<"M", "i", "c", "h", "i", "g", "a", "n", " ", "S", "t", ".">>
S_FloridaAM == <<"F", "l", "o", "r", "i", "d", "a", " ", "A", "&", "M">>

S_FloridaAMFL ==
    <<"F", "l", "o", "r", "i", "d", "a", " ", "A", "&", "M", " ", "(", "F", "L", ")">>
S_NorthCarolinaJoined ==
    <<"N", "o", "r", "t", "h", "C", "a", "r", "o", "l", "i", "n", "a">>

\* the names get_or_create_team is called with when it is looked at alone: a
\* name with a mascot, an unknown name, the same unknown name with a
\* parenthesised part, the canonical name of an unrated team, and a name
\* that only the fuzzy lookup matches
ResolveNames ==
    {S_DukeBlueDevils, S_FloridaAM, S_FloridaAMFL, S_MichiganSt, S_NorthCarolinaJoined}

S_Over == <<"O", "v", "e", "r">>
S_Under == <<"U", "n", "d", "e", "r">>

\* the teams, aliases and ratings the store holds before the service runs
SeededDb ==
    [teams |-> {[id |-> 101, canonical_name |-> S_Duke],
                [id |-> 102, canonical_name |-> S_NorthCarolina],
                [id |-> 103, canonical_name |-> S_MichiganSt]},
     team_aliases |-> {},
     team_ratings |-> {101, 102},
     team_resolution_audit |-> <<>>,
     games |-> {},
     odds_snapshots |-> {}]

\* a store that also holds an unrated team named with the mascot, a rated
\* team whose name differs from an unrated one in spacing only, and an
\* unrated team that only the fuzzy lookup finds for "Florida A&M"
S_MichiganStJoined == <<"M", "i", "c", "h", "i", "g", "a", "n", "S", "t">>
S_FloridaAMSpaced ==
    <<"F", "l", "o", "r", "i", "d", "a", " ", "A", " ", "&", " ", "M">>

WiderDb ==
    [SeededDb EXCEPT
        !.teams = @ \cup {[id |-> 104, canonical_name |-> S_DukeBlueDevils],
                          [id |-> 105, canonical_name |-> S_MichiganStJoined],
                          [id |-> 106, canonical_name |-> S_FloridaAMSpaced]},
        !.team_ratings = @ \cup {105}]

\* home_team / away_team / commence_time of the events the API can hold:
\* two rated teams, one team under two spellings, a team the store lacks
Matchups ==
    {[home_team |-> S_DukeBlueDevils, away_team |-> S_NorthCarolinaTarHeels,
      commence_time |-> 7200],
     [home_team |-> S_Duke, away_team |-> S_DukeBlueDevils, commence_time |-> NoTime],
     [home_team |-> S_FloridaAM, away_team |-> S_Duke, commence_time |-> 7200]}

\* the API's events by id; "evt-1" is always the game of two rated teams
Feeds ==
    {f \in [Keys -> Matchups] : f["evt-1"].home_team = S_DukeBlueDevils}

\* the three requests poll_once makes for an event
MarketSets == {"full", "h1", "h2"}

\* Option::None of a price or a point
NoValue == -1000

\* the bookmakers of an event payload: none, or one bookmaker that quotes the
\* spread and the total of the market set and one market of another kind
BookKinds == {"empty", "quoted"}

MarketKey(base, market_set) ==
    CASE market_set = "full" -> base
      [] market_set = "h1" -> base \o "_h1"
      [] OTHER -> base \o "_h2"

Bookmakers(kind, market_set, m) ==
    IF kind = "empty" THEN <<>>
    ELSE << [key |-> "draftkings",
             markets |->
               << [key |-> MarketKey("spreads", market_set),
                   outcomes |-> << [name |-> m.home_team, price |-> -110, point |-> -3],
                                   [name |-> m.away_team, price |-> -110, point |-> 3] >>],
                  [key |-> MarketKey("totals", market_set),
                   outcomes |-> << [name |-> S_Over,
                                    price |-> -105, point |-> 140],
                                   [name |-> S_Under,
                                    price |-> -115, point |-> 140] >>],
                  [key |-> "h2h",
                   outcomes |-> << [name |-> m.home_team, price |-> -150,
                                    point |-> NoValue] >>] >>] >>

\* the OddsApiEvent a successful per-event request deserializes
EventPayload(f, id, kind, market_set) ==
    [id |-> id, home_team |-> f[id].home_team, away_team |-> f[id].away_team,
     commence_time |-> f[id].commence_time,
     bookmakers |-> Bookmakers(kind, market_set, f[id])]

\* the id arrays the event-list endpoint can answer with
EventLists ==
    {<<>>, <<"evt-1">>, <<"evt-2">>, <<"evt-1", "evt-2">>, <<"evt-2", "evt-1">>,
     <<"evt-1", "evt-1">>}

(***************************************************************************)
(* The relational store and team resolution.  The store is one record, db, *)
(* whose fields are the tables; a function that writes takes the store and *)
(* the source of fresh uuids and returns both with its result.             *)
(***************************************************************************)
\* the character order used to compare strings (code points)
Alphabet ==
    <<" ", "&", "'", "(", ")", "-", ".">>
    \o <<"0", "1", "2", "3", "4", "5", "6", "7", "8", "9">>
    \o UpperLetters \o LowerLetters
    \o <<"ndash", "mdash", "lsquo", "rsquo">>

CharRank(c) == CHOOSE i \in 1..Len(Alphabet) : Alphabet[i] = c

\* a < b in ORDER BY t.canonical_name
RECURSIVE StrLess(_, _)
StrLess(a, b) ==
    IF b = <<>> THEN FALSE
    ELSE IF a = <<>> THEN TRUE
    ELSE IF a[1] = b[1] THEN StrLess(Tail(a), Tail(b))
    ELSE CharRank(a[1]) < CharRank(b[1])

IsAlnumLower(c) == c \in Digits \/ \E i \in 1..26 : LowerLetters[i] = c

\* regexp_replace(lower(s), '[^a-z0-9]+', '', 'g')
FuzzyKey(s) == SelectSeq(to_lowercase(s), IsAlnumLower)

IsAlnumLowerOrSpace(c) == IsAlnumLower(c) \/ IsWhitespace(c)

\* the comparison key of resolve_team_name: case and punctuation are ignored
StrictKey(s) == SelectSeq(to_lowercase(s), IsAlnumLowerOrSpace)

\* Option::None of a lookup
NoTeam == [id |-> Nil, canonical_name |-> <<>>, has_ratings |-> FALSE]

\* SELECT t.id, t.canonical_name, EXISTS(... team_ratings ...) AS has_ratings
TeamRow(db, t) ==
    [id |-> t.id, canonical_name |-> t.canonical_name,
     has_ratings |-> t.id \in db.team_ratings]

\* the first row of a result set ordered by canonical_name
LeastByName(rows) ==
    CHOOSE r \in rows : \A q \in rows :
        q = r \/ StrLess(r.canonical_name, q.canonical_name)

\* the database function resolve_team_name: the canonical name that matches
\* the input exactly up to case and punctuation, directly or through an
\* alias; <<>> stands for NULL
resolve_team_name(db, input) ==
    LET byName  == {t \in db.teams : StrictKey(t.canonical_name) = StrictKey(input)}
        byAlias == {t \in db.teams : \E a \in db.team_aliases :
                       a.team_id = t.id /\ StrictKey(a.alias) = StrictKey(input)}
    IN  IF byName # {} THEN LeastByName(byName).canonical_name
        ELSE IF byAlias # {} THEN LeastByName(byAlias).canonical_name
        ELSE <<>>

resolve_team_strict(db, input) ==
    LET name == resolve_team_name(db, input)
        rows == {t \in db.teams : name # <<>> /\ t.canonical_name = name}
    IN  IF rows = {} THEN NoTeam ELSE TeamRow(db, CHOOSE t \in rows : TRUE)

resolve_team_fuzzy(db, input) ==
    LET matched == {t \in db.teams :
                      \/ FuzzyKey(t.canonical_name) = FuzzyKey(input)
                      \/ \E a \in db.team_aliases :
                            a.team_id = t.id /\ FuzzyKey(a.alias) = FuzzyKey(input)}
        rated   == {t \in matched : t.id \in db.team_ratings}
    IN  IF matched = {} THEN NoTeam
        ELSE TeamRow(db, LeastByName(IF rated # {} THEN rated ELSE matched))

\* INSERT INTO team_aliases ... ON CONFLICT (alias, source) DO NOTHING
InsertAlias(db, team_id, alias) ==
    IF \E a \in db.team_aliases : a.alias = alias /\ a.source = "the_odds_api"
      THEN db
      ELSE [db EXCEPT !.team_aliases =
               @ \cup {[team_id |-> team_id, alias |-> alias, source |-> "the_odds_api"]}]

\* the mutant of AttachAlias: a matched team gets no alias
AttachAliasNever(db, team, team_name) == db

\* the alias is attached only when the raw name differs from the canonical one
AttachAlias(db, team, team_name) ==
    IF to_lowercase(team_name) # to_lowercase(team.canonical_name)
      THEN InsertAlias(db, team.id, team_name)
      ELSE db

\* the mutant of InsertAudit: the row is not written
InsertAuditDropped(db, input_name, resolved_name, context, has_ratings) == db

\* INSERT INTO team_resolution_audit
InsertAudit(db, input_name, resolved_name, context, has_ratings) ==
    [db EXCEPT !.team_resolution_audit =
        Append(@, [input_name |-> input_name, resolved_name |-> resolved_name,
                   source |-> "the_odds_api", context |-> context,
                   has_ratings |-> has_ratings])]

\* resolved_name NULL in team_resolution_audit
NullName == <<"NULL">>

\* team_name_candidates, computed once for the names the feed holds
CandidateTable ==
    [n \in {m.home_team : m \in Matchups} \cup {m.away_team : m \in Matchups}
               \cup ResolveNames
        |-> team_name_candidates(n)]

Candidates(team_name) ==
    IF team_name \in DOMAIN CandidateTable THEN CandidateTable[team_name]
    ELSE team_name_candidates(team_name)

\* the results of resolve_team_strict for the candidates, in their order
RECURSIVE StrictLookups(_, _, _)
StrictLookups(db, candidates, i) ==
    IF i > Len(candidates) THEN <<>>
    ELSE <<resolve_team_strict(db, candidates[i])>> \o StrictLookups(db, candidates, i + 1)

\* get_or_create_team.  The candidate loop returns at the first rated match
\* and remembers the first unrated one; no lookup writes, so the loop is read
\* off the list of lookup results.
get_or_create_team(db, uuid, team_name, context, strict_team_matching) ==
    LET First(s)   == CHOOSE i \in s : \A j \in s : i <= j
        Matched(team) ==
            [db |-> AttachAlias(db, team, team_name), uuid |-> uuid,
             result |-> team.id]
        Create(canonical_name, existing) ==
            [db |-> InsertAlias(
                        [db EXCEPT !.teams =
                            IF existing = {}
                              THEN @ \cup {[id |-> uuid, canonical_name |-> canonical_name]}
                              ELSE @],
                        IF existing = {} THEN uuid
                        ELSE (CHOOSE t \in existing : TRUE).id,
                        team_name),
             uuid |-> uuid + 1,
             result |-> IF existing = {} THEN uuid
                        ELSE (CHOOSE t \in existing : TRUE).id]
        Named(canonical_name) ==
            Create(canonical_name,
                   {t \in db.teams : t.canonical_name = canonical_name})
        Resolve(found, hits, ratedHits, fuzzy) ==
            IF ratedHits # {} THEN Matched(found[First(ratedHits)])
            ELSE IF fuzzy # NoTeam /\ fuzzy.has_ratings THEN Matched(fuzzy)
            ELSE IF hits # {} THEN Matched(found[First(hits)])
            ELSE IF fuzzy # NoTeam THEN Matched(fuzzy)
            ELSE IF strict_team_matching
              THEN [db |-> InsertAudit(db, team_name, NullName, context, FALSE),
                    uuid |-> uuid, result |-> Err]
            ELSE Named(normalize_team_name(team_name))
        Found(found) ==
            Resolve(found,
                    {i \in 1..Len(found) : found[i] # NoTeam},
                    {i \in 1..Len(found) : found[i] # NoTeam /\ found[i].has_ratings},
                    resolve_team_fuzzy(db, team_name))
    IN  Found(StrictLookups(db, Candidates(team_name), 1))

\* SELECT canonical_name FROM teams WHERE id = $1, unwrap_or_default
CanonicalOf(db, id) ==
    IF \E t \in db.teams : t.id = id
      THEN (CHOOSE t \in db.teams : t.id = id).canonical_name
      ELSE <<>>

\* the mutant of UpsertGame: the conflicting row takes the new id
UpsertGameFresh(db, game_id, external_id, home_team_id, away_team_id, commence_time) ==
    [db |-> [db EXCEPT !.games = {g \in @ : g.external_id # external_id} \cup
                    {[id |-> game_id, external_id |-> external_id,
                      home_team_id |-> home_team_id, away_team_id |-> away_team_id,
                      commence_time |-> commence_time, status |-> "scheduled"]}],
     id |-> game_id]

\* INSERT INTO games ... ON CONFLICT (external_id) DO UPDATE ... RETURNING id
UpsertGame(db, game_id, external_id, home_team_id, away_team_id, commence_time) ==
    LET old == {g \in db.games : g.external_id = external_id}
        id  == IF old = {} THEN game_id ELSE (CHOOSE g \in old : TRUE).id
    IN  [db |-> [db EXCEPT !.games = (@ \ old) \cup
                    {[id |-> id, external_id |-> external_id,
                      home_team_id |-> home_team_id, away_team_id |-> away_team_id,
                      commence_time |-> commence_time, status |-> "scheduled"]}],
         id |-> id]

\* the mutant of SameTeam: the check of line 977 is left out
SameTeamNeverRejected(home_team_id, away_team_id) == FALSE

\* the check of get_or_create_game, line 977
SameTeam(home_team_id, away_team_id) == home_team_id = away_team_id

get_or_create_game(db, uuid, event, time, strict_team_matching) ==
    LET audited(home, away) ==
            InsertAudit(
              InsertAudit(away.db, event.home_team,
                          CanonicalOf(away.db, home.result), "home_team",
                          home.result \in away.db.team_ratings),
              event.away_team, CanonicalOf(away.db, away.result), "away_team",
              away.result \in away.db.team_ratings)
        Upserted(home, away, upsert) ==
            [db |-> upsert.db, uuid |-> away.uuid + 1, result |-> upsert.id,
             home_team_id |-> home.result, away_team_id |-> away.result]
        Away(home, away) ==
            IF away.result = Err
              THEN [db |-> away.db, uuid |-> away.uuid, result |-> Err,
                    home_team_id |-> home.result, away_team_id |-> Err]
            ELSE IF SameTeam(home.result, away.result)
              THEN [db |-> away.db, uuid |-> away.uuid, result |-> Err,
                    home_team_id |-> home.result, away_team_id |-> away.result]
            ELSE Upserted(home, away,
                          UpsertGame(audited(home, away), away.uuid, event.id,
                                     home.result, away.result,
                                     IF event.commence_time = NoTime THEN time
                                     ELSE event.commence_time))
        Home(home) ==
            IF home.result = Err
              THEN [db |-> home.db, uuid |-> home.uuid, result |-> Err,
                    home_team_id |-> Err, away_team_id |-> Nil]
            ELSE Away(home,
                      get_or_create_team(home.db, home.uuid, event.away_team,
                                         "away_team", strict_team_matching))
    IN  Home(get_or_create_team(db, uuid, event.home_team, "home_team",
                                strict_team_matching))

(***************************************************************************)
(* get_or_create_team statement by statement.  Two callers (two instances  *)
(* of the service) share the store; a step is one SQL statement, and the   *)
(* statements of the callers interleave.                                   *)
(***************************************************************************)
Resolvers == {"r1", "r2"}

\* the context argument: one caller resolves home teams, the other away teams
ContextOf(c) == IF c = "r1" THEN "home_team" ELSE "away_team"

\* a caller outside get_or_create_team
IdleResolver ==
    [pc |-> "idle", team_name |-> <<>>, context |-> "none", i |-> 1,
     best_unrated |-> NoTeam, team |-> NoTeam, team_id |-> Nil,
     final_team_id |-> Nil, result |-> Nil, path |-> "none",
     conflict |-> FALSE, wrote |-> <<>>, hits |-> <<>>, fuzzy |-> <<>>]

InitResolve ==
    /\ resolver = [c \in Resolvers |-> IdleResolver]
    /\ rcalls = 0
    /\ returned = [n \in ResolveNames |-> {}]

\* the mutant of FailsUnresolved: an unresolved name fails in either mode
FailsUnresolvedAlways(strict_team_matching) == TRUE

\* line 1157: if self.config.strict_team_matching
FailsUnresolved(strict_team_matching) == strict_team_matching

\* the mutant of InsertReturning: the generated id is returned on a conflict too
InsertReturningAlways(existing, team_id) == team_id

\* lines 1181-1192: INSERT INTO teams ... ON CONFLICT (canonical_name) DO
\* NOTHING RETURNING id; Nil stands for no row
InsertReturning(existing, team_id) == IF existing = {} THEN team_id ELSE Nil

\* lines 1183-1185: INSERT INTO teams (id, canonical_name) ... ON CONFLICT
\* (canonical_name) DO NOTHING
InsertTeam(db, existing, team_id, canonical_name) ==
    IF existing = {}
      THEN [db EXCEPT !.teams = @ \cup {[id |-> team_id, canonical_name |-> canonical_name]}]
      ELSE db

\* the tables a statement changed, appended to the call's list
Wrote(r, before, after) ==
    r.wrote \o (IF after.teams # before.teams THEN <<"teams">> ELSE <<>>)
            \o (IF after.team_aliases # before.team_aliases THEN <<"team_aliases">> ELSE <<>>)
            \o (IF after.team_resolution_audit # before.team_resolution_audit
                  THEN <<"team_resolution_audit">> ELSE <<>>)

\* what is left alone by a step of get_or_create_team
ResolveFrame ==
    UNCHANGED <<config, feed, ppc, pollLocals, stream, pollHist, rcalls>>

\* a call returns: the result is handed to the caller
Returns(c, r, db, result) ==
    /\ database' = db
    /\ resolver' = [resolver EXCEPT ![c] =
                       [r EXCEPT !.pc = "done", !.result = result,
                                 !.wrote = Wrote(r, database, db)]]
    /\ returned' = [returned EXCEPT ![r.team_name] = @ \cup {result}]

\* line 1082: the call starts and computes its candidates
StartResolve(c, team_name) ==
    /\ resolver[c].pc \in {"idle", "done"}
    /\ rcalls < MaxResolveCalls
    /\ rcalls' = rcalls + 1
    /\ resolver' = [resolver EXCEPT ![c] =
                       [IdleResolver EXCEPT
                           !.pc = IF Candidates(team_name) = <<>> THEN "fuzzy" ELSE "strict",
                           !.team_name = team_name, !.context = ContextOf(c)]]
    /\ UNCHANGED <<config, feed, ppc, pollLocals, stream, pollHist, database,
                   nextId, returned>>

\* the mutant of RatedMatch: any match counts as rated
AnyMatch(hit) == hit # NoTeam

\* lines 1086-1087 and 1115-1116: if let Some((id, canonical, has_ratings))
\* = ... { if has_ratings
RatedMatch(hit) == hit # NoTeam /\ hit.has_ratings

\* lines 1085-1111: one pass of `for cand in candidates`; `hits` keeps what
\* the lookups of the call returned, in their order
StrictStep(c) ==
    LET r    == resolver[c]
        Hit(hit, last) ==
            IF RatedMatch(hit)
              THEN [r EXCEPT !.pc = "attach", !.team = hit, !.path = "rated",
                             !.hits = Append(@, hit)]
              ELSE [r EXCEPT !.pc = IF last THEN "fuzzy" ELSE "strict",
                             !.i = r.i + 1,
                             !.hits = Append(@, hit),
                             !.best_unrated =
                                 IF hit # NoTeam /\ r.best_unrated = NoTeam
                                   THEN hit ELSE r.best_unrated]
    IN  /\ r.pc = "strict"
        /\ resolver' = [resolver EXCEPT ![c] =
               Hit(resolve_team_strict(database, Candidates(r.team_name)[r.i]),
                   r.i = Len(Candidates(r.team_name)))]
        /\ UNCHANGED <<database, nextId, returned>>
        /\ ResolveFrame

\* lines 1115-1155 up to the alias: the fuzzy lookup and the choice of what
\* follows it; `fuzzy` keeps what the lookup returned
FuzzyStep(c) ==
    LET r == resolver[c]
        Unrated(best, hit) ==
            IF best # NoTeam
              THEN [r EXCEPT !.pc = "attach", !.team = best, !.path = "unrated",
                             !.best_unrated = best, !.fuzzy = <<hit>>]
            ELSE IF FailsUnresolved(config.strict_team_matching)
              THEN [r EXCEPT !.pc = "audit", !.path = "audit", !.fuzzy = <<hit>>]
            ELSE [r EXCEPT !.pc = "insert", !.path = "insert", !.fuzzy = <<hit>>]
        Hit(hit) ==
            IF RatedMatch(hit)
              THEN [r EXCEPT !.pc = "attach", !.team = hit, !.path = "rated",
                             !.fuzzy = <<hit>>]
              ELSE Unrated(IF r.best_unrated = NoTeam THEN hit ELSE r.best_unrated, hit)
    IN  /\ r.pc = "fuzzy"
        /\ resolver' = [resolver EXCEPT ![c] =
                           Hit(resolve_team_fuzzy(database, r.team_name))]
        /\ UNCHANGED <<database, nextId, returned>>
        /\ ResolveFrame

\* lines 1089-1102, 1118-1131, 1141-1154: the alias of a matched team, return Ok(id)
AttachStep(c) ==
    LET r == resolver[c] IN
    /\ r.pc = "attach"
    /\ Returns(c, r, AttachAlias(database, r.team, r.team_name), r.team.id)
    /\ UNCHANGED nextId
    /\ ResolveFrame

\* lines 1158-1172: the audit row of an unresolved name, return Err
AuditStep(c) ==
    LET r == resolver[c] IN
    /\ r.pc = "audit"
    /\ Returns(c, r, InsertAudit(database, r.team_name, NullName, r.context, FALSE), Err)
    /\ UNCHANGED nextId
    /\ ResolveFrame

\* lines 1176-1202 up to the SELECT: the insert of the new team
InsertStep(c) ==
    LET r == resolver[c]
        Insert(canonical_name, existing, inserted) ==
            /\ database' = InsertTeam(database, existing, nextId, canonical_name)
            /\ resolver' = [resolver EXCEPT ![c] =
                   [r EXCEPT !.pc = IF inserted # Nil THEN "alias" ELSE "select",
                             !.team_id = nextId,
                             !.final_team_id = inserted,
                             !.conflict = existing # {},
                             !.wrote = IF existing = {} THEN Append(r.wrote, "teams")
                                       ELSE r.wrote]]
        Named(canonical_name, existing) ==
            Insert(canonical_name, existing, InsertReturning(existing, nextId))
    IN  /\ r.pc = "insert"
        /\ \E canonical_name \in {normalize_team_name(r.team_name)} :
              Named(canonical_name,
                    {t \in database.teams : t.canonical_name = canonical_name})
        /\ nextId' = nextId + 1
        /\ UNCHANGED returned
        /\ ResolveFrame

\* lines 1197-1200: SELECT id FROM teams WHERE canonical_name = $1
SelectStep(c) ==
    LET r == resolver[c] IN
    /\ r.pc = "select"
    /\ \E t \in database.teams :
          /\ t.canonical_name = normalize_team_name(r.team_name)
          /\ resolver' = [resolver EXCEPT ![c] =
                             [r EXCEPT !.pc = "alias", !.final_team_id = t.id]]
    /\ UNCHANGED <<database, nextId, returned>>
    /\ ResolveFrame

\* lines 1205-1217: the alias of the new team, return Ok(final_team_id)
AliasStep(c) ==
    LET r == resolver[c] IN
    /\ r.pc = "alias"
    /\ Returns(c, r, InsertAlias(database, r.final_team_id, r.team_name),
               r.final_team_id)
    /\ UNCHANGED nextId
    /\ ResolveFrame

ResolveStep ==
    \E c \in Resolvers :
        \/ \E team_name \in ResolveNames : StartResolve(c, team_name)
        \/ StrictStep(c)
        \/ FuzzyStep(c)
        \/ AttachStep(c)
        \/ AuditStep(c)
        \/ InsertStep(c)
        \/ SelectStep(c)
        \/ AliasStep(c)

\* of the cache variables only nextId, the source of uuids, is used
NextResolve ==
    /\ ResolveStep
    /\ UNCHANGED <<cache, writer, cpc, cop, ckey, cres, cvia, calls, cacheHist>>
    /\ UNCHANGED <<clockVars, trackerVars, fetchVars, nameVars, extractVars, storeVars, healthVars, gameVars>>

(***************************************************************************)
(* extract_odds_snapshot                                                   *)
(***************************************************************************)
\* the match on market.key; <<>> stands for "return None"
MarketTypeAndPeriod(key) ==
    CASE key = "spreads" -> <<"spreads", "full">>
      [] key = "totals" -> <<"totals", "full">>
      [] key = "spreads_h1" -> <<"spreads", "1h">>
      [] key = "totals_h1" -> <<"totals", "1h">>
      [] key = "spreads_h2" -> <<"spreads", "2h">>
      [] key = "totals_h2" -> <<"totals", "2h">>
      [] OTHER -> <<>>

\* the mutant of OutcomeLoop: in a totals market every outcome that is not
\* "Over" is taken for the "Under" one, and it sets the line as well
RECURSIVE OutcomeLoopLoose(_, _, _, _)
OutcomeLoopLoose(snapshot, outcomes, i, home_team) ==
    IF i > Len(outcomes) THEN snapshot
    ELSE LET outcome == outcomes[i] IN
         IF snapshot.market_type = "spreads"
           THEN IF outcome.name = home_team
                  THEN OutcomeLoopLoose([snapshot EXCEPT !.home_line = outcome.point,
                                                         !.home_price = outcome.price],
                                        outcomes, i + 1, home_team)
                  ELSE OutcomeLoopLoose([snapshot EXCEPT !.away_line = outcome.point,
                                                         !.away_price = outcome.price],
                                        outcomes, i + 1, home_team)
         ELSE IF outcome.name = S_Over
           THEN OutcomeLoopLoose([snapshot EXCEPT !.total_line = outcome.point,
                                                  !.over_price = outcome.price],
                                 outcomes, i + 1, home_team)
         ELSE OutcomeLoopLoose([snapshot EXCEPT !.total_line = outcome.point,
                                                !.under_price = outcome.price],
                               outcomes, i + 1, home_team)

\* for outcome in &market.outcomes { match market_type { ... } }
RECURSIVE OutcomeLoop(_, _, _, _)
OutcomeLoop(snapshot, outcomes, i, home_team) ==
    IF i > Len(outcomes) THEN snapshot
    ELSE LET outcome == outcomes[i] IN
         IF snapshot.market_type = "spreads"
           THEN IF outcome.name = home_team
                  THEN OutcomeLoop([snapshot EXCEPT !.home_line = outcome.point,
                                                    !.home_price = outcome.price],
                                   outcomes, i + 1, home_team)
                  ELSE OutcomeLoop([snapshot EXCEPT !.away_line = outcome.point,
                                                    !.away_price = outcome.price],
                                   outcomes, i + 1, home_team)
         ELSE IF snapshot.market_type = "totals"
           THEN IF outcome.name = S_Over
                  THEN OutcomeLoop([snapshot EXCEPT !.total_line = outcome.point,
                                                    !.over_price = outcome.price],
                                   outcomes, i + 1, home_team)
                ELSE IF outcome.name = S_Under
                  THEN OutcomeLoop([snapshot EXCEPT !.under_price = outcome.price],
                                   outcomes, i + 1, home_team)
                ELSE OutcomeLoop(snapshot, outcomes, i + 1, home_team)
         ELSE OutcomeLoop(snapshot, outcomes, i + 1, home_team)

\* the mutant of extract_odds_snapshot: a spread whose lines do not cancel is
\* rejected
extract_odds_snapshot_checked(time, game_id, external_id, bookmaker, market, home_team) ==
    LET Checked(s) ==
            IF /\ s.market_type = "spreads"
               /\ s.home_line # NoValue /\ s.away_line # NoValue
               /\ s.home_line + s.away_line \notin {-1, 0, 1}
              THEN <<>> ELSE <<s>>
        Typed(tp) ==
            IF tp = <<>> THEN <<>>
            ELSE Checked(OutcomeLoop([time |-> time, game_id |-> game_id,
                         external_id |-> external_id, bookmaker |-> bookmaker,
                         market_type |-> tp[1], period |-> tp[2],
                         home_line |-> NoValue, away_line |-> NoValue,
                         total_line |-> NoValue, home_price |-> NoValue,
                         away_price |-> NoValue, over_price |-> NoValue,
                         under_price |-> NoValue],
                        market.outcomes, 1, home_team))
    IN  Typed(MarketTypeAndPeriod(market.key))

\* extract_odds_snapshot; <<>> stands for None, <<s>> for Some(s).  The check of
\* home_line + away_line only logs a warning.
extract_odds_snapshot(time, game_id, external_id, bookmaker, market, home_team) ==
    LET tp == MarketTypeAndPeriod(market.key) IN
    IF tp = <<>> THEN <<>>
    ELSE << OutcomeLoop([time |-> time, game_id |-> game_id,
                         external_id |-> external_id, bookmaker |-> bookmaker,
                         market_type |-> tp[1], period |-> tp[2],
                         home_line |-> NoValue, away_line |-> NoValue,
                         total_line |-> NoValue, home_price |-> NoValue,
                         away_price |-> NoValue, over_price |-> NoValue,
                         under_price |-> NoValue],
                        market.outcomes, 1, home_team) >>

\* for market in &bookmaker.markets { ... snapshots.push(s) }
RECURSIVE MarketLoop(_, _, _, _, _)
MarketLoop(time, game_id, event, bookmaker, j) ==
    IF j > Len(bookmaker.markets) THEN <<>>
    ELSE extract_odds_snapshot(time, game_id, event.id, bookmaker.key,
                               bookmaker.markets[j], event.home_team)
           \o MarketLoop(time, game_id, event, bookmaker, j + 1)

\* for bookmaker in &event.bookmakers { ... }
RECURSIVE BookmakerLoop(_, _, _, _)
BookmakerLoop(time, game_id, event, i) ==
    IF i > Len(event.bookmakers) THEN <<>>
    ELSE MarketLoop(time, game_id, event, event.bookmakers[i], 1)
           \o BookmakerLoop(time, game_id, event, i + 1)

(***************************************************************************)
(* extract_odds_snapshot applied to markets of every kind.  Points are     *)
(* counted in half points, so the 0.5 of the spread check is 1.            *)
(***************************************************************************)
\* line 957: sum.abs() > 0.5, in half points
SpreadTolerance == 1

\* the keys a market can carry: the six the function knows, keys of other
\* markets, a key in capitals and the empty key
MarketKeys ==
    {"spreads", "totals", "spreads_h1", "totals_h1", "spreads_h2", "totals_h2",
     "h2h", "h2h_h1", "spreads_q1", "totals_h3", "Spreads", ""}

\* the outcomes a market can list: either team, Over and Under and "over"
\* without the capital, with a point of -3.0, 3.0, 7.0 or none and a price
\* or none
OutcomeValues ==
    [name : {S_DukeBlueDevils, S_NorthCarolinaTarHeels, S_Over, S_Under,
             to_lowercase(S_Over)},
     point : {-6, 6, 14, NoValue}, price : {-110}]
      \cup {[name |-> S_DukeBlueDevils, point |-> -6, price |-> NoValue]}

RECURSIVE OutcomeLists(_)
OutcomeLists(n) ==
    IF n = 0 THEN {<<>>}
    ELSE OutcomeLists(n - 1)
           \cup {Append(l, o) : l \in {x \in OutcomeLists(n - 1) : Len(x) = n - 1},
                                o \in OutcomeValues}

\* lines 954-964: the condition under which the warning is logged
SpreadWarning(snapshot) ==
    /\ snapshot.market_type = "spreads"
    /\ snapshot.home_line # NoValue /\ snapshot.away_line # NoValue
    /\ \E sum \in {snapshot.home_line + snapshot.away_line} :
          (IF sum < 0 THEN -sum ELSE sum) > SpreadTolerance

InitExtract ==
    extractor = [pc |-> "idle", key |-> "none", outcomes |-> <<>>, result |-> <<>>,
                 warned |-> FALSE]

\* a call of extract_odds_snapshot for a market of the home team Duke Blue
\* Devils; warned tells whether the call logged the spread warning
ExtractCall(key, outcomes) ==
    LET Returned(result) ==
            [pc |-> "done", key |-> key, outcomes |-> outcomes, result |-> result,
             warned |-> result # <<>> /\ SpreadWarning(result[1])]
    IN  /\ extractor.pc = "idle"
        /\ extractor' = Returned(extract_odds_snapshot(
                                    now, 1, "evt-1", "draftkings",
                                    [key |-> key, outcomes |-> outcomes],
                                    S_DukeBlueDevils))

NextExtract ==
    /\ extractor.pc = "idle"
    /\ \E key \in MarketKeys, outcomes \in OutcomeLists(MaxOutcomes) :
          ExtractCall(key, outcomes)
    /\ UNCHANGED <<cacheVars, clockVars, trackerVars, fetchVars, pollVars, resolveVars,
                   nameVars, storeVars, healthVars, gameVars>>

(***************************************************************************)
(* HealthState and health_handler                                          *)
(***************************************************************************)
\* HealthState::new; no answer given yet
InitHealth ==
    /\ health = [last_poll_time |-> NoTime, last_poll_count |-> 0, error_count |-> 0]
    /\ answer = [seq |-> 0, http_status |-> 0, status |-> "none", last_poll |-> NoTime,
                 last_poll_count |-> 0, consecutive_errors |-> 0]
    /\ healthCalls = [record_success |-> "idle", time |-> NoTime, count |-> 0,
                      successes |-> 0, health_handler |-> "idle"]

\* HealthState::record_success
record_success(h, time, count) ==
    [last_poll_time |-> time, last_poll_count |-> count, error_count |-> 0]

\* HealthState::record_error
record_error(h) == [h EXCEPT !.error_count = @ + 1]

\* line 1637: if *errors > 5; line 1643: if *errors > 10
DegradedAfter == 5
UnavailableAfter == 10

\* the mutant of Degraded: "degraded" is reported from the second threshold on
DegradedLate(errors) == errors > UnavailableAfter

Degraded(errors) == errors > DegradedAfter

Unavailable(errors) == errors > UnavailableAfter

\* health_handler: the status code and the JSON body
health_handler(h) ==
    [http_status |-> IF Unavailable(h.error_count) THEN 503 ELSE 200,
     status |-> IF Degraded(h.error_count) THEN "degraded" ELSE "ok",
     last_poll |-> h.last_poll_time,
     last_poll_count |-> h.last_poll_count,
     consecutive_errors |-> h.error_count]

\* a caller records a cycle that went well
RecordSuccess(count) ==
    /\ health' = record_success(health, now, count)
    /\ UNCHANGED <<answer, healthCalls>>

\* a caller records a cycle that failed
RecordError ==
    /\ health.error_count < MaxErrors
    /\ health' = record_error(health)
    /\ UNCHANGED <<answer, healthCalls>>

\* GET /health is answered
HealthQuery ==
    /\ answer.seq < MaxQueries
    /\ answer' = [seq |-> answer.seq + 1] @@ health_handler(health)
    /\ UNCHANGED <<health, healthCalls>>

NextHealth ==
    /\ \/ \E count \in 0..2 : RecordSuccess(count)
       \/ RecordError
       \/ HealthQuery
    /\ UNCHANGED <<cacheVars, clockVars, trackerVars, fetchVars, pollVars, resolveVars,
                   nameVars, extractVars, storeVars, gameVars>>

(***************************************************************************)
(* record_success and health_handler, lock by lock.  Each field of         *)
(* HealthState sits behind its own RwLock.  record_success takes the write *)
(* lock of one field for one statement at a time; health_handler takes the *)
(* three read locks one after the other and keeps each until it returns,   *)
(* so a write waits while the handler holds the read lock of its field.    *)
(***************************************************************************)
\* the read locks health_handler holds at each of its positions
ReadLocksHeld(pc) ==
    IF pc = "last_poll_count" THEN {"last_poll_time"}
    ELSE IF pc = "error_count" THEN {"last_poll_time", "last_poll_count"}
    ELSE {}

\* self.<field>.write().await returns
WriteLockFree(field) == field \notin ReadLocksHeld(healthCalls.health_handler)

\* the poll loop calls record_success(count); Utc::now() is later than the
\* time recorded before
CallRecordSuccess(count) ==
    /\ healthCalls.record_success = "idle"
    /\ healthCalls.successes < MaxSuccesses
    /\ healthCalls' = [healthCalls EXCEPT !.record_success = "last_poll_time",
                                          !.time = health.last_poll_time + 1,
                                          !.count = count,
                                          !.successes = @ + 1]
    /\ UNCHANGED <<health, answer>>

\* line 358: *self.last_poll_time.write().await = Some(Utc::now())
WriteLastPollTime ==
    /\ healthCalls.record_success = "last_poll_time"
    /\ WriteLockFree("last_poll_time")
    /\ health' = [health EXCEPT !.last_poll_time = healthCalls.time]
    /\ healthCalls' = [healthCalls EXCEPT !.record_success = "last_poll_count"]
    /\ UNCHANGED answer

\* line 359: *self.last_poll_count.write().await = count
WriteLastPollCount ==
    /\ healthCalls.record_success = "last_poll_count"
    /\ WriteLockFree("last_poll_count")
    /\ health' = [health EXCEPT !.last_poll_count = healthCalls.count]
    /\ healthCalls' = [healthCalls EXCEPT !.record_success = "error_count"]
    /\ UNCHANGED answer

\* line 360: *self.error_count.write().await = 0
WriteErrorCount ==
    /\ healthCalls.record_success = "error_count"
    /\ WriteLockFree("error_count")
    /\ health' = [health EXCEPT !.error_count = 0]
    /\ healthCalls' = [healthCalls EXCEPT !.record_success = "idle"]
    /\ UNCHANGED answer

\* lines 363-365: the poll loop calls record_error, between its calls of
\* record_success
CallRecordError ==
    /\ healthCalls.record_success = "idle"
    /\ WriteLockFree("error_count")
    /\ health.error_count < MaxErrors
    /\ health' = record_error(health)
    /\ UNCHANGED <<answer, healthCalls>>

\* line 1633: let last_poll = health.last_poll_time.read().await
ReadLastPollTime ==
    /\ healthCalls.health_handler = "idle"
    /\ answer.seq < MaxQueries
    /\ healthCalls' = [healthCalls EXCEPT !.health_handler = "last_poll_count"]
    /\ UNCHANGED <<health, answer>>

\* line 1634: let last_count = health.last_poll_count.read().await
ReadLastPollCount ==
    /\ healthCalls.health_handler = "last_poll_count"
    /\ healthCalls' = [healthCalls EXCEPT !.health_handler = "error_count"]
    /\ UNCHANGED <<health, answer>>

\* lines 1635-1656: let errors = health.error_count.read().await, the answer
\* is built from the three guards, which are dropped at the return
ReadErrorCount ==
    /\ healthCalls.health_handler = "error_count"
    /\ answer' = [seq |-> answer.seq + 1] @@ health_handler(health)
    /\ healthCalls' = [healthCalls EXCEPT !.health_handler = "idle"]
    /\ UNCHANGED health

NextHealthLocks ==
    /\ \/ \E count \in 1..2 : CallRecordSuccess(count)
       \/ WriteLastPollTime
       \/ WriteLastPollCount
       \/ WriteErrorCount
       \/ CallRecordError
       \/ ReadLastPollTime
       \/ ReadLastPollCount
       \/ ReadErrorCount
    /\ UNCHANGED <<cacheVars, clockVars, trackerVars, fetchVars, pollVars, resolveVars,
                   nameVars, extractVars, storeVars, gameVars>>

(***************************************************************************)
(* store_snapshots, statement by statement: begin, one INSERT per snapshot *)
(* on the transaction, commit.  `rows` is the committed table, which is    *)
(* what any other connection reads; `tx` is the table as the open          *)
(* transaction sees it.                                                    *)
(***************************************************************************)
\* a snapshot of one of two markets of one game at one time, in one of two
\* versions that differ in every line and price the market carries
StoreSnapshot(market_type, v) ==
    LET spread == market_type = "spreads" IN
    [time |-> 0, game_id |-> 1, external_id |-> "evt-1", bookmaker |-> "draftkings",
     market_type |-> market_type, period |-> "full",
     home_line |-> IF spread THEN -5 - v ELSE NoValue,
     away_line |-> IF spread THEN 5 + v ELSE NoValue,
     total_line |-> IF spread THEN NoValue ELSE 280 + v,
     home_price |-> IF spread THEN -105 - 5 * v ELSE NoValue,
     away_price |-> IF spread THEN -115 + 5 * v ELSE NoValue,
     over_price |-> IF spread THEN NoValue ELSE -105 - 5 * v,
     under_price |-> IF spread THEN NoValue ELSE -115 + 5 * v]

StoreSnapshots == {StoreSnapshot(m, v) : m \in {"spreads", "totals"}, v \in {1, 2}}

\* the batches handed to store_snapshots
RECURSIVE SnapshotLists(_)
SnapshotLists(n) ==
    IF n = 0 THEN {<<>>}
    ELSE SnapshotLists(n - 1)
           \cup {Append(l, o) : l \in {x \in SnapshotLists(n - 1) : Len(x) = n - 1},
                                o \in StoreSnapshots}

\* the columns of the ON CONFLICT target, line 1443
KeyOf(s) == <<s.time, s.game_id, s.bookmaker, s.market_type, s.period>>

\* the columns of DO UPDATE SET, lines 1444-1450
ValuesOf(s) ==
    <<s.home_line, s.away_line, s.total_line, s.home_price, s.away_price,
      s.over_price, s.under_price>>

StoreKeys == {KeyOf(s) : s \in StoreSnapshots}

NoRow == <<>>

\* the values of the last snapshot of the batch written under key k
LastWritten(batch, k, otherwise) ==
    LET at == {i \in DOMAIN batch : KeyOf(batch[i]) = k} IN
    IF at = {} THEN otherwise
    ELSE ValuesOf(batch[CHOOSE i \in at : \A j \in at : j <= i])

InitStorer ==
    storer = [pc |-> "idle", batch |-> <<>>, i |-> 1, rows |-> {}, tx |-> {},
              before |-> {}, result |-> "none", last |-> [k \in StoreKeys |-> NoRow]]
\* what is remembered of the get_or_create_game calls made so far: per
\* external id the id the first insertion returned, the ids returned since,
\* the number of calls that reached the upsert and what the last of them
\* wrote
NoWrite == [home_team_id |-> Nil, away_team_id |-> Nil, commence_time |-> NoTime]

InitGamer ==
    gamer = [calls |-> 0, cleared |-> FALSE,
             first |-> [k \in Keys |-> Nil], returned |-> [k \in Keys |-> {}],
             writes |-> [k \in Keys |-> 0], latest |-> [k \in Keys |-> NoWrite]]

(***************************************************************************)
(* main and poll_once.  One task runs the cycle, so a call of              *)
(* get_or_insert_with meets no other caller and runs as one step.  Time    *)
(* does not pass during a cycle: the requests are taken at call level,     *)
(* without the limiter and the sleeps between attempts.                    *)
(***************************************************************************)
Configs ==
    [enable_full : BOOLEAN, enable_h1 : BOOLEAN, enable_h2 : BOOLEAN,
     strict_team_matching : BOOLEAN, run_once : BOOLEAN]

\* the values of Config::from_env when the environment sets none
DefaultConfig ==
    [enable_full |-> TRUE, enable_h1 |-> TRUE, enable_h2 |-> TRUE,
     strict_team_matching |-> TRUE, run_once |-> TRUE]

\* the functions poll_once calls
PollFns == {"fetch_event_ids", "fetch_event_odds", "fetch_event_h1_odds",
            "fetch_event_h2_odds"}

\* what a call keeps of the responses it met: the status and body of the last one,
\* whether the call used up its attempts, and its result
Outcome(fn, resps) ==
    LET r == Fetch(fn, resps) IN
    [fn |-> fn, last |-> resps[r.sent].status, body |-> resps[r.sent].body,
     exhausted |-> r.sent = MaxRequests(fn) /\ resps[r.sent] \in NonTerminal,
     result |-> r.result]

Outcomes ==
    [fn \in PollFns |-> {Outcome(fn, resps) : resps \in RespSeqs(MaxRequests(fn))}]

NoFetch == [fn |-> "none", last |-> 0, body |-> "none", exhausted |-> FALSE, result |-> "none"]

NoGame == [external_id |-> "none", via |-> "none", home_team_id |-> Nil,
           away_team_id |-> Nil, result |-> Nil]

\* the mutant of Propagates: an Err is dropped and poll_once goes on
PropagatesNothing(result) == FALSE

\* the `?` after a call: an Err ends poll_once
Propagates(result) == result = "err"

InitPoll ==
    /\ config \in Configs
    /\ feed \in Feeds
    /\ ppc = "start"
    /\ all_event_ids = <<>>
    /\ new_event_ids = <<>>
    /\ event_ids = <<>>
    /\ events = <<>>
    /\ idx = 1
    /\ snapshots = <<>>
    /\ database \in {SeededDb, WiderDb}
    /\ stream = <<>>
    /\ requested = <<>>
    /\ listResult = "none"
    /\ lastFetch = NoFetch
    /\ lastGame = NoGame
    /\ failCause = "none"
    /\ ret = Nil

\* main, lines 1696-1702: RUN_ONCE=false is refused, otherwise poll_once runs
Main ==
    /\ ppc = "start"
    /\ ppc' = IF ~config.run_once THEN "rejected" ELSE "list"
    /\ UNCHANGED <<config, feed, pollLocals, database, stream, pollHist>>
    /\ UNCHANGED <<cache, nextId, tracker>>

\* where poll_once goes after the first-half block, lines 1570-1577
AfterH1(cfg, ids) ==
    IF cfg.enable_h2 /\ ids # <<>> THEN "h2_fetch" ELSE "commit"

\* ... after event_ids is final, lines 1561-1568
AfterList2(cfg, ids) ==
    IF cfg.enable_h1 /\ ids # <<>> THEN "h1_fetch" ELSE AfterH1(cfg, ids)

\* ... after the full-game block, lines 1549-1557
AfterFull(cfg, ids) ==
    IF cfg.run_once /\ ~cfg.enable_full /\ ids = <<>> /\ (cfg.enable_h1 \/ cfg.enable_h2)
      THEN "list2"
      ELSE AfterList2(cfg, ids)

\* ... after process_events returned, by the market set it was called for
AfterProcess(market_set, cfg, ids) ==
    CASE market_set = "full" -> AfterFull(cfg, ids)
      [] market_set = "h1" -> AfterH1(cfg, ids)
      [] OTHER -> "commit"

\* ... after the events of a market set are fetched: process_events runs its
\* loop once per event
AfterFetch(market_set, cfg, ids, evs) ==
    IF evs = <<>> THEN AfterProcess(market_set, cfg, ids)
    ELSE market_set \o "_process"

\* the mutant of ChosenIds: the half markets are fetched for every listed id
ChosenIdsListed(cfg, new_ids, listed) == listed

\* poll_once, lines 1527-1545: event_ids after the full-game block
ChosenIds(cfg, new_ids, listed) ==
    IF cfg.enable_full /\ new_ids # <<>> THEN new_ids
    ELSE IF ~cfg.enable_full THEN listed
    ELSE <<>>

\* poll_once, lines 1513-1545: the event list, the freshness filter and the
\* choice of event_ids
PollFetchList(o, ids) ==
    /\ ppc = "list"
    /\ listResult' = o.result
    /\ lastFetch' = o
    /\ IF Propagates(o.result)
         THEN /\ ppc' = "failed"
              /\ failCause' = "event_list"
              /\ UNCHANGED <<tracker, all_event_ids, new_event_ids, event_ids>>
         ELSE LET listed == ListedIds(o.body, ids)
                  f == FilterNewEvents(tracker, listed, now)
                  chosen == ChosenIds(config, f.new_ids, listed)
              IN  /\ tracker' = f.cache
                  /\ all_event_ids' = listed
                  /\ new_event_ids' = f.new_ids
                  /\ event_ids' = chosen
                  /\ ppc' = IF config.enable_full /\ f.new_ids # <<>>
                              THEN "full_fetch"
                              ELSE AfterFull(config, chosen)
                  /\ UNCHANGED failCause
    /\ UNCHANGED <<config, feed, events, idx, snapshots, database, stream,
                   requested, lastGame, ret>>
    /\ UNCHANGED <<cache, nextId>>

\* poll_once, line 1555: the second request for the event list
PollFetchList2(o, ids) ==
    /\ ppc = "list2"
    /\ listResult' = o.result
    /\ lastFetch' = o
    /\ IF Propagates(o.result)
         THEN /\ ppc' = "failed"
              /\ failCause' = "event_list"
              /\ UNCHANGED event_ids
         ELSE LET listed == ListedIds(o.body, ids)
              IN  /\ event_ids' = listed
                  /\ ppc' = AfterList2(config, listed)
                  /\ UNCHANGED failCause
    /\ UNCHANGED <<config, feed, all_event_ids, new_event_ids, events, idx,
                   snapshots, database, stream, requested, lastGame, ret>>
    /\ UNCHANGED <<cache, nextId, tracker>>

\* poll_once and fetch_all_h1_odds, lines 1530-1532 and 765-767: every
\* Ok(Some(event)) is pushed
KeepAll(event) == TRUE

\* fetch_all_h2_odds, line 828
HasBookmakers(event) == event.bookmakers # <<>>

\* The test the loop of a market set applies to Ok(Some(event))
Keeps(market_set, event) ==
    IF market_set = "h2" THEN HasBookmakers(event) ELSE KeepAll(event)

\* One pass of a `for event_id in ...` loop that fetches: the request for
\* ids[idx] and what the caller does with its result.
FetchOne(here, fn, market_set, ids, o, kind) ==
    /\ ppc = here
    /\ LET event == EventPayload(feed, ids[idx], kind, market_set)
           evs   == IF o.result = "ok" /\ Keeps(market_set, event) THEN Append(events, event)
                    ELSE events
       IN  /\ events' = evs
           /\ IF idx < Len(ids)
                THEN /\ idx' = idx + 1
                     /\ UNCHANGED ppc
                ELSE /\ idx' = 1
                     /\ ppc' = AfterFetch(market_set, config, event_ids, evs)
    /\ requested' = Append(requested, [market_set |-> market_set, id |-> ids[idx]])
    /\ lastFetch' = o
    /\ UNCHANGED <<config, feed, all_event_ids, new_event_ids, event_ids,
                   snapshots, database, stream, listResult, lastGame, failCause, ret>>
    /\ UNCHANGED <<cache, nextId, tracker>>

\* poll_once, lines 1529-1533: if let Ok(Some(event)) = fetch_event_odds(..)
PollFetchFull(o, kind) ==
    FetchOne("full_fetch", "fetch_event_odds", "full", new_event_ids, o, kind)

\* fetch_all_h1_odds, lines 761-773; it returns Ok whatever the requests did
PollFetchH1(o, kind) ==
    FetchOne("h1_fetch", "fetch_event_h1_odds", "h1", event_ids, o, kind)

\* fetch_all_h2_odds, lines 825-837; it returns Ok whatever the requests did
PollFetchH2(o, kind) ==
    FetchOne("h2_fetch", "fetch_event_h2_odds", "h2", event_ids, o, kind)

\* the mutant of SkipsEvent: an Err of the factory is taken for a game id
SkipsEventNever(result) == FALSE

\* process_events, lines 856-866: Err(e) => { skipped_events += 1; continue }
SkipsEvent(result) == result = Err

\* One pass of the loop of process_events, lines 849-885: get_or_insert_with
\* around get_or_create_game, then the snapshots of the event's markets.  An
\* Err of the factory skips the event and leaves the cache as it was.
ProcessOne(market_set) ==
    /\ ppc = market_set \o "_process"
    /\ LET event == events[idx] IN
       IF cache[event.id] # Nil
         THEN /\ snapshots' = snapshots \o BookmakerLoop(now, cache[event.id], event, 1)
              /\ lastGame' = [external_id |-> event.id, via |-> "cache",
                              home_team_id |-> Nil, away_team_id |-> Nil,
                              result |-> cache[event.id]]
              /\ UNCHANGED <<cache, nextId, database>>
         ELSE \E g \in {get_or_create_game(database, nextId, event, now,
                                           config.strict_team_matching)} :
              /\ database' = g.db
              /\ nextId' = g.uuid
              /\ lastGame' = [external_id |-> event.id, via |-> "factory",
                              home_team_id |-> g.home_team_id,
                              away_team_id |-> g.away_team_id,
                              result |-> g.result]
              /\ IF SkipsEvent(g.result)
                   THEN UNCHANGED <<cache, snapshots>>
                   ELSE /\ cache' = [cache EXCEPT ![event.id] = g.result]
                        /\ snapshots' = snapshots \o BookmakerLoop(now, g.result, event, 1)
    /\ IF idx < Len(events)
         THEN /\ idx' = idx + 1
              /\ UNCHANGED <<ppc, events>>
         ELSE /\ idx' = 1
              /\ events' = <<>>
              /\ ppc' = AfterProcess(market_set, config, event_ids)
    /\ lastFetch' = NoFetch
    /\ UNCHANGED <<config, feed, all_event_ids, new_event_ids, event_ids, stream,
                   requested, listResult, failCause, ret>>
    /\ UNCHANGED tracker

PollProcess == \E market_set \in MarketSets : ProcessOne(market_set)

\* the mutant of UpsertSnapshot: ON CONFLICT ... DO NOTHING
UpsertSnapshotKeep(rows, s) ==
    IF \E r \in rows : /\ r.time = s.time /\ r.game_id = s.game_id
                       /\ r.bookmaker = s.bookmaker /\ r.market_type = s.market_type
                       /\ r.period = s.period
      THEN rows
    ELSE rows \cup {[time |-> s.time, game_id |-> s.game_id, bookmaker |-> s.bookmaker,
                     market_type |-> s.market_type, period |-> s.period,
                     home_line |-> s.home_line, away_line |-> s.away_line,
                     total_line |-> s.total_line, home_price |-> s.home_price,
                     away_price |-> s.away_price, over_price |-> s.over_price,
                     under_price |-> s.under_price]}

\* INSERT INTO odds_snapshots ... ON CONFLICT (time, game_id, bookmaker,
\* market_type, period) DO UPDATE
UpsertSnapshot(rows, s) ==
    {r \in rows : ~(/\ r.time = s.time /\ r.game_id = s.game_id
                    /\ r.bookmaker = s.bookmaker /\ r.market_type = s.market_type
                    /\ r.period = s.period)}
      \cup {[time |-> s.time, game_id |-> s.game_id, bookmaker |-> s.bookmaker,
             market_type |-> s.market_type, period |-> s.period,
             home_line |-> s.home_line, away_line |-> s.away_line,
             total_line |-> s.total_line, home_price |-> s.home_price,
             away_price |-> s.away_price, over_price |-> s.over_price,
             under_price |-> s.under_price]}

RECURSIVE UpsertAll(_, _, _)
UpsertAll(rows, batch, i) ==
    IF i > Len(batch) THEN rows
    ELSE UpsertAll(UpsertSnapshot(rows, batch[i]), batch, i + 1)

\* the entry xadd appends to "odds.live"
StreamEntry(s) ==
    [game_id |-> s.game_id, bookmaker |-> s.bookmaker,
     market_type |-> s.market_type, data |-> s]

\* where publish_to_redis can stop: before the first entry, after the first
\* one, or not at all
PublishCuts(n) == {0, 1, n} \cap 0..n

\* poll_once, lines 1584-1592: store_snapshots and publish_to_redis under
\* tokio::join!, then `?` on the one and on the other.  A store that fails
\* leaves its transaction uncommitted; a publish that fails has appended the
\* entries before the failing one.  Both return Ok at once for no snapshots.
PollCommit(store_ok, cut) ==
    /\ ppc = "commit"
    /\ LET n          == Len(snapshots)
           stored     == n = 0 \/ store_ok
           published  == n = 0 \/ cut = n
       IN  /\ database' = IF n > 0 /\ store_ok
                      THEN [database EXCEPT !.odds_snapshots = UpsertAll(@, snapshots, 1)]
                      ELSE database
           /\ stream' = stream \o [i \in 1..(IF n = 0 THEN 0 ELSE cut) |->
                                      StreamEntry(snapshots[i])]
           /\ IF Propagates(IF stored THEN "ok" ELSE "err")
                THEN /\ ppc' = "failed"
                     /\ failCause' = "store"
                     /\ UNCHANGED ret
              ELSE IF Propagates(IF published THEN "ok" ELSE "err")
                THEN /\ ppc' = "failed"
                     /\ failCause' = "publish"
                     /\ UNCHANGED ret
              ELSE /\ ppc' = "done"
                   /\ ret' = n
                   /\ UNCHANGED failCause
    /\ lastFetch' = NoFetch
    /\ UNCHANGED <<config, feed, pollLocals, requested, listResult, lastGame>>
    /\ UNCHANGED <<cache, nextId, tracker>>

\* the variables of the cache and of the tracker that a cycle leaves alone
cacheRest == <<writer, cpc, cop, ckey, cres, cvia, calls, cacheHist>>

trackerRest == <<tcalls, lastOp, lastIds, lastNew, lastAll, lastAt, prevTracker>>

PollStep ==
    \/ Main
    \/ \E o \in Outcomes["fetch_event_ids"], ids \in EventLists : PollFetchList(o, ids)
    \/ \E o \in Outcomes["fetch_event_ids"], ids \in EventLists : PollFetchList2(o, ids)
    \/ \E o \in Outcomes["fetch_event_odds"], kind \in BookKinds : PollFetchFull(o, kind)
    \/ \E o \in Outcomes["fetch_event_h1_odds"], kind \in BookKinds : PollFetchH1(o, kind)
    \/ \E o \in Outcomes["fetch_event_h2_odds"], kind \in BookKinds : PollFetchH2(o, kind)
    \/ PollProcess
    \/ \E store_ok \in BOOLEAN, cut \in PublishCuts(Len(snapshots)) :
           PollCommit(store_ok, cut)

NextPoll ==
    PollStep /\ UNCHANGED <<cacheRest, clockVars, trackerRest, fetchVars, resolveVars, nameVars, extractVars, storeVars, healthVars, gameVars>>

(***************************************************************************)
(* The steps of store_snapshots                                            *)
(***************************************************************************)
\* the mutant of ExecuteInTx: the INSERT runs on the pool and is committed
\* at once
ExecuteOnPool(st, s) ==
    [st EXCEPT !.rows = UpsertSnapshot(@, s), !.tx = UpsertSnapshot(@, s), !.i = @ + 1]

\* line 1465: .execute(&mut *tx)
ExecuteInTx(st, s) ==
    [st EXCEPT !.tx = UpsertSnapshot(@, s), !.i = @ + 1]

\* an Err leaves store_snapshots through `?`; the transaction is dropped
\* uncommitted, which rolls it back
StoreFails(st) ==
    [st EXCEPT !.pc = "returned", !.result = "err", !.tx = st.rows]

\* lines 1428-1433: an empty batch returns Ok at once, otherwise the
\* transaction begins or the call fails
StoreCall(batch, ok) ==
    /\ storer.pc \in {"idle", "returned"}
    /\ LET st == [storer EXCEPT !.batch = batch, !.i = 1, !.before = storer.rows,
                                !.tx = storer.rows, !.result = "none"]
       IN  storer' = IF batch = <<>> THEN [st EXCEPT !.pc = "returned", !.result = "ok"]
                     ELSE IF ok THEN [st EXCEPT !.pc = "begun"]
                     ELSE StoreFails(st)

\* lines 1435-1467: the INSERT of the next snapshot succeeds or fails
StoreExecute(ok) ==
    /\ storer.pc = "begun"
    /\ storer.i <= Len(storer.batch)
    /\ storer' = IF ok THEN ExecuteInTx(storer, storer.batch[storer.i])
                 ELSE StoreFails(storer)

\* lines 1469-1471: commit makes the transaction's table the committed one
StoreCommit(ok) ==
    /\ storer.pc = "begun"
    /\ storer.i > Len(storer.batch)
    /\ storer' = IF ok
                   THEN [storer EXCEPT !.pc = "returned", !.result = "ok",
                                       !.rows = storer.tx,
                                       !.last = [k \in StoreKeys |->
                                                   LastWritten(storer.batch, k, @[k])]]
                 ELSE StoreFails(storer)

NextStore ==
    /\ \/ \E batch \in SnapshotLists(MaxBatch), ok \in BOOLEAN : StoreCall(batch, ok)
       \/ \E ok \in BOOLEAN : StoreExecute(ok)
       \/ \E ok \in BOOLEAN : StoreCommit(ok)
    /\ UNCHANGED <<cacheVars, clockVars, trackerVars, fetchVars, pollVars, resolveVars,
                   nameVars, extractVars, healthVars, gameVars>>

\* C24: the committed table is at every moment either the table as it was
\* when store_snapshots was called or that table with every snapshot of the
\* batch upserted; after an Ok it is the latter, after an Err and while the
\* call runs it is the former.
C24_StoreAllOrNothing ==
    LET full == UpsertAll(storer.before, storer.batch, 1) IN
    /\ storer.rows \in {storer.before, full}
    /\ storer.pc = "begun" => storer.rows = storer.before
    /\ (storer.pc = "returned" /\ storer.result = "ok") => storer.rows = full
    /\ (storer.pc = "returned" /\ storer.result = "err") => storer.rows = storer.before

\* the second INSERT of a batch of two failed after the first was executed,
\* and neither row is in the table
C24_Witness ==
    /\ storer.pc = "returned"
    /\ storer.result = "err"
    /\ Len(storer.batch) = 2
    /\ storer.i = 2
    /\ KeyOf(storer.batch[1]) # KeyOf(storer.batch[2])
    /\ storer.rows = {}

\* C27: the committed table holds at most one row per key, and for a key
\* written before it holds the values of the last snapshot written under
\* that key, within the last committed batch or else in an earlier one.
C27_OneRowLatestValues ==
    \A k \in StoreKeys :
        LET stored == {r \in storer.rows : KeyOf(r) = k} IN
        IF storer.last[k] = NoRow THEN stored = {}
        ELSE /\ Cardinality(stored) = 1
             /\ \A r \in stored : ValuesOf(r) = storer.last[k]

\* an earlier batch stored the second version, the last batch wrote the
\* second version and then the first, and the one row holds the first
C27_Witness ==
    /\ storer.pc = "returned"
    /\ storer.result = "ok"
    /\ storer.before = UpsertSnapshot({}, StoreSnapshot("spreads", 2))
    /\ storer.batch = <<StoreSnapshot("spreads", 2), StoreSnapshot("spreads", 1)>>
    /\ storer.rows = UpsertSnapshot({}, StoreSnapshot("spreads", 1))

(***************************************************************************)
(* get_or_create_game called through the GameCache for event after event,  *)
(* as process_events does (line 852), with GameCache::cleanup in between   *)
(***************************************************************************)
\* an event of the API with the given id and teams, no bookmakers
GameEvent(k, m) ==
    [id |-> k, home_team |-> m.home_team, away_team |-> m.away_team,
     commence_time |-> m.commence_time, bookmakers |-> <<>>]

\* line 852: a cached id is returned without a call; otherwise
\* get_or_create_game runs and an Ok is cached
GameCall(k, m) ==
    /\ gamer.calls < MaxGameCalls
    /\ IF cache[k] # Nil
         THEN /\ gamer' = [gamer EXCEPT !.calls = @ + 1,
                                        !.returned[k] = @ \cup {cache[k]}]
              /\ UNCHANGED <<cache, nextId, database>>
         ELSE \E g \in {get_or_create_game(database, nextId, GameEvent(k, m), now,
                                           config.strict_team_matching)} :
              /\ database' = g.db
              /\ nextId' = g.uuid
              /\ IF g.result = Err
                   THEN /\ gamer' = [gamer EXCEPT !.calls = @ + 1]
                        /\ UNCHANGED cache
                   ELSE /\ cache' = [cache EXCEPT ![k] = g.result]
                        /\ gamer' = [gamer EXCEPT
                              !.calls = @ + 1,
                              !.first[k] = IF @ = Nil THEN g.result ELSE @,
                              !.returned[k] = @ \cup {g.result},
                              !.writes[k] = @ + 1,
                              !.latest[k] =
                                  [home_team_id |-> g.home_team_id,
                                   away_team_id |-> g.away_team_id,
                                   commence_time |->
                                       IF m.commence_time = NoTime THEN now
                                       ELSE m.commence_time]]

\* GameCache::cleanup, lines 330-336
GameCleanup(max_size) ==
    /\ CacheLen(cache) > max_size
    /\ cache' = [k \in Keys |-> Nil]
    /\ gamer' = [gamer EXCEPT !.cleared = TRUE]
    /\ UNCHANGED <<nextId, database>>

NextGames ==
    /\ \/ \E k \in Keys, m \in Matchups : GameCall(k, m)
       \/ \E max_size \in {0, 1} : GameCleanup(max_size)
    /\ UNCHANGED <<cacheRest, clockVars, trackerVars, fetchVars, resolveVars,
                   nameVars, extractVars, storeVars, healthVars>>
    /\ UNCHANGED <<config, feed, ppc, pollLocals, stream, pollHist>>

\* C28: for every external id there is at most one game row; it exists once
\* a call for that id reached the upsert, its id is the id the first such
\* call returned and is the only id ever returned for that external id, by
\* the cache as well; its teams and commence_time are those of the latest
\* call that reached the upsert and its status is 'scheduled'.  Two external
\* ids never share a game id.
C28_OneGamePerExternalId ==
    /\ \A k \in Keys :
          LET rows == {g \in database.games : g.external_id = k} IN
          /\ Cardinality(rows) <= 1
          /\ rows = {} <=> gamer.first[k] = Nil
          /\ gamer.returned[k] \subseteq {gamer.first[k]} \ {Nil}
          /\ cache[k] # Nil => cache[k] = gamer.first[k]
          /\ \A g \in rows :
                /\ g.id = gamer.first[k]
                /\ g.home_team_id = gamer.latest[k].home_team_id
                /\ g.away_team_id = gamer.latest[k].away_team_id
                /\ g.commence_time = gamer.latest[k].commence_time
                /\ g.status = "scheduled"
    /\ \A k1, k2 \in Keys :
          (k1 # k2 /\ gamer.first[k1] # Nil) => gamer.first[k1] # gamer.first[k2]

\* after a cleanup a second call for "evt-1" reached the upsert with other
\* teams: the row has the id of the first call and the teams of the second
C28_Witness ==
    /\ gamer.cleared
    /\ gamer.writes["evt-1"] = 2
    /\ \E g \in database.games :
          /\ g.external_id = "evt-1"
          /\ g.id = gamer.first["evt-1"]
          /\ g.away_team_id = 101
          /\ g.commence_time = 7200
    /\ \E i \in DOMAIN database.team_resolution_audit :
          database.team_resolution_audit[i].resolved_name = S_NorthCarolina

(***************************************************************************)
(* Claims about the cycle (checked under SpecPoll)                         *)
(***************************************************************************)
ProcessPositions == {"full_process", "h1_process", "h2_process"}

\* C40: every entry of the identity cache names a stored game row with that
\* external id and that id; every snapshot process_events has produced
\* carries the id of the stored game row of the snapshot's external id; and
\* there is one such row only.
C40_CacheAndSnapshotsMatchRows ==
    LET Rows(external_id) == {g \in database.games : g.external_id = external_id}
        Stored(external_id, game_id) ==
            /\ Cardinality(Rows(external_id)) = 1
            /\ \A g \in Rows(external_id) : g.id = game_id
    IN  /\ \A k \in Keys : cache[k] # Nil => Stored(k, cache[k])
        /\ \A i \in DOMAIN snapshots :
              Stored(snapshots[i].external_id, snapshots[i].game_id)

\* a cycle has ended with two games cached and stored, and with snapshots of
\* one of them that were produced from the factory's id (full game) and
\* from the cached id (first half)
C40_Witness ==
    /\ ppc = "done"
    /\ \A k \in Keys : cache[k] # Nil
    /\ cache["evt-1"] # cache["evt-2"]
    /\ Cardinality(database.games) = 2
    /\ \E i, j \in DOMAIN snapshots :
          /\ snapshots[i].external_id = "evt-1"
          /\ snapshots[i].period = "full"
          /\ snapshots[j].external_id = "evt-1"
          /\ snapshots[j].period = "1h"
          /\ snapshots[j].game_id = cache["evt-1"]

\* C4: no game row has the same team on both sides, and a pass of
\* process_events whose get_or_create_game resolved both sides to one team id
\* ends in Err, writes no game row, adds no snapshot and leaves the event
\* without a cache entry.
C4_GameHasTwoTeams ==
    /\ [](\A g \in database.games : g.home_team_id # g.away_team_id)
    /\ [][(/\ ppc \in ProcessPositions
           /\ lastGame'.via = "factory"
           /\ lastGame'.home_team_id # Err
           /\ lastGame'.home_team_id = lastGame'.away_team_id)
          => (/\ lastGame'.result = Err
              /\ database'.games = database.games
              /\ snapshots' = snapshots
              /\ cache' = cache
              /\ cache'[lastGame'.external_id] = Nil)]_vars

\* C4 happens: an event whose two names resolved to Duke was skipped while the
\* game of another event is stored.
C4_Witness ==
    /\ lastGame.via = "factory"
    /\ lastGame.home_team_id = 101
    /\ lastGame.away_team_id = 101
    /\ lastGame.result = Err
    /\ cache[lastGame.external_id] = Nil
    /\ database.games # {}

PerEventFns == {"fetch_event_odds", "fetch_event_h1_odds", "fetch_event_h2_odds"}

\* the ids requested so far for a market set, in the order of the requests
RECURSIVE RequestedFor(_, _)
RequestedFor(market_set, i) ==
    IF i > Len(requested) THEN <<>>
    ELSE (IF requested[i].market_set = market_set THEN <<requested[i].id>> ELSE <<>>)
           \o RequestedFor(market_set, i + 1)

\* the ids poll_once hands to the loop of a market set
Target(market_set) == IF market_set = "full" THEN new_event_ids ELSE event_ids

\* C9: a per-event odds fetch that meets a 4xx status other than 429, or that
\* uses up its attempts (fetch_event_odds, fetch_event_h1_odds), or that meets
\* any status other than 2xx on its one request (fetch_event_h2_odds), returns
\* None; no per-event fetch, whatever it returns, ends the cycle in failure;
\* and the loop of every market set requests each of its ids, one after the
\* other, whatever the earlier requests returned.
C9_UnavailableIsSkipped ==
    /\ lastFetch.fn \in PerEventFns =>
          /\ (lastFetch.last \in (400..499) \ {429}) => lastFetch.result = "none"
          /\ (lastFetch.fn # "fetch_event_h2_odds" /\ lastFetch.exhausted)
                => lastFetch.result = "none"
          /\ (lastFetch.fn = "fetch_event_h2_odds" /\ lastFetch.last \in 300..599)
                => lastFetch.result = "none"
          /\ ppc # "failed"
    /\ \A market_set \in MarketSets :
          IF ppc = market_set \o "_fetch"
            THEN RequestedFor(market_set, 1) = SubSeq(Target(market_set), 1, idx - 1)
            ELSE RequestedFor(market_set, 1) \in {<<>>, Target(market_set)}

\* C9 happens: the first-half request for the first of two ids used up its
\* attempts and returned None, and the loop is at the second id.
C9_Witness ==
    /\ ppc = "h1_fetch"
    /\ idx = 2
    /\ Len(event_ids) = 2
    /\ lastFetch.fn = "fetch_event_h1_odds"
    /\ lastFetch.exhausted
    /\ lastFetch.result = "none"

\* C10: once fetch_event_ids has returned Err the cycle has failed, with no
\* odds request issued, no team resolved, no snapshot extracted or stored and
\* nothing published.
C10_ListFailureEndsCycle ==
    listResult = "err" =>
        /\ ppc = "failed"
        /\ failCause = "event_list"
        /\ requested = <<>>
        /\ lastGame = NoGame
        /\ snapshots = <<>>
        /\ database = SeededDb
        /\ stream = <<>>
        /\ ret = Nil

\* C10 happens: the event-list request was answered 503 and the cycle failed.
C10_Witness ==
    /\ listResult = "err"
    /\ lastFetch.fn = "fetch_event_ids"
    /\ lastFetch.last = 503
    /\ ppc = "failed"

\* the rows of team_resolution_audit with resolved_name NULL whose input is a
\* team name of event k
NullAudits(k) ==
    {i \in DOMAIN database.team_resolution_audit :
        /\ database.team_resolution_audit[i].resolved_name = NullName
        /\ database.team_resolution_audit[i].input_name
               \in {feed[k].home_team, feed[k].away_team}}

\* C14 as claimed: in strict mode an event with a team name that does not
\* resolve leaves one audit row with resolved_name NULL in a cycle, whichever
\* market sets are enabled.
C14_OneNullAuditPerEvent ==
    config.strict_team_matching
        => \A k \in Keys : Cardinality(NullAudits(k)) <= 1

\* C15: a pass of process_events whose team resolution fails adds no snapshot,
\* does not end the cycle and goes on to the next event (or, after the last
\* one, to what follows process_events); poll_once never fails for a
\* resolution, and a cycle that ends well returns the number of snapshots it
\* extracted.
C15_ResolutionFailureSkipsEvent ==
    /\ [](ppc = "failed" => failCause \in {"event_list", "store", "publish"})
    /\ [](ppc = "done" => ret = Len(snapshots))
    /\ [][(ppc \in ProcessPositions /\ lastGame'.result = Err)
            => /\ snapshots' = snapshots
               /\ ppc' # "failed"
               /\ IF idx < Len(events)
                    THEN idx' = idx + 1 /\ ppc' = ppc /\ events' = events
                    ELSE \E market_set \in MarketSets :
                            /\ ppc = market_set \o "_process"
                            /\ ppc' = AfterProcess(market_set, config, event_ids)]_vars

\* a cycle in which one event failed to resolve and another gave snapshots
\* has ended well
C15_Witness ==
    /\ ppc = "done"
    /\ ret > 0
    /\ \E i \in DOMAIN database.team_resolution_audit :
           database.team_resolution_audit[i].resolved_name = NullName
    /\ \A i \in DOMAIN snapshots : snapshots[i].external_id = "evt-1"

\* C11 as claimed: a 2xx answer whose body does not hold the expected payload
\* makes the call fail.  For the event list the cycle ends in failure and the
\* body is never taken for an empty list; for a per-event request the event
\* is not kept and the cycle goes on.
C11_UnparsableBodyFailsCall ==
    (lastFetch.last = 200 /\ lastFetch.body # "payload")
        => /\ lastFetch.result = "err"
           /\ lastFetch.fn = "fetch_event_ids"
                 => (ppc = "failed" /\ failCause = "event_list" /\ listResult = "err")
           /\ lastFetch.fn \in PerEventFns => ppc # "failed"

\* C22: the step that leaves Commit hands the whole snapshot list to both
\* sinks; the cycle is done exactly when the store took every snapshot and
\* the stream took every snapshot, and then returns the length of the list;
\* otherwise it has failed, whatever the other sink did.
C22_CommitBothOrFail ==
    [][ppc = "commit" =>
          LET n         == Len(snapshots)
              stored    == database'.odds_snapshots
                              = UpsertAll(database.odds_snapshots, snapshots, 1)
              published == /\ Len(stream') = Len(stream) + n
                           /\ \A i \in 1..n :
                                 stream'[Len(stream) + i] = StreamEntry(snapshots[i])
          IN  /\ ppc' \in {"done", "failed"}
              /\ ppc' = "done" <=> (stored /\ published)
              /\ ppc' = "done" => ret' = n
              /\ ppc' = "failed" => (failCause' \in {"store", "publish"} /\ ret' = ret)
              /\ snapshots' = snapshots]_vars

\* the store failed, the stream took every snapshot, and the cycle failed
C22_Witness ==
    /\ ppc = "failed"
    /\ failCause = "store"
    /\ Len(snapshots) > 0
    /\ Len(stream) = Len(snapshots)
    /\ database.odds_snapshots = {}

\* C23 as claimed: after a failed cycle the store holds no odds_snapshots row
\* of that cycle.
C23_FailedCycleStoresNothing ==
    ppc = "failed" => database.odds_snapshots = SeededDb.odds_snapshots

\* C31 as claimed: every odds request of a cycle is issued before any team
\* resolution or extraction, so while a request is still to be made no game
\* has been resolved and no snapshot extracted; and the store and the stream
\* are written only from Commit on.
C31_PhasesInOrder ==
    /\ ppc \in {"full_fetch", "h1_fetch", "h2_fetch"}
          => (lastGame = NoGame /\ snapshots = <<>>)
    /\ ppc \notin {"done", "failed"}
          => (stream = <<>> /\ database.odds_snapshots = {})

\* the ids for which the odds of a market set were requested, in the order
\* of the requests
RECURSIVE RequestedFrom(_, _)
RequestedFrom(market_set, i) ==
    IF i > Len(requested) THEN <<>>
    ELSE (IF requested[i].market_set = market_set THEN <<requested[i].id>> ELSE <<>>)
           \o RequestedFrom(market_set, i + 1)

RequestedIds(market_set) == RequestedFrom(market_set, 1)

\* C32: with enable_full every odds request is for an id the tracker
\* returned as new in this cycle, and once the fetches are over each enabled
\* market set was requested for exactly the new ids, so for none when none
\* is new; without enable_full no full-game odds are requested and each
\* enabled half was requested for every id of the event list, in its order.
C32_OnlyNewIdsFetched ==
    LET over   == ppc \in {"commit", "done"} \/ (ppc = "failed" /\ failCause # "event_list")
        Wanted(on, ids) == IF on THEN ids ELSE <<>>
    IN  /\ config.enable_full =>
              /\ \A i \in DOMAIN requested :
                    \E j \in DOMAIN new_event_ids : requested[i].id = new_event_ids[j]
              /\ over => /\ RequestedIds("full") = new_event_ids
                         /\ RequestedIds("h1") = Wanted(config.enable_h1, new_event_ids)
                         /\ RequestedIds("h2") = Wanted(config.enable_h2, new_event_ids)
        /\ ~config.enable_full =>
              /\ RequestedIds("full") = <<>>
              /\ all_event_ids # <<>> => event_ids = all_event_ids
              /\ over => /\ RequestedIds("h1") = Wanted(config.enable_h1, event_ids)
                         /\ RequestedIds("h2") = Wanted(config.enable_h2, event_ids)

\* the list named one event twice, the tracker returned it as new once, and
\* the cycle ended with one request per market set
C32_Witness ==
    /\ ppc = "done"
    /\ config.enable_full /\ config.enable_h1 /\ config.enable_h2
    /\ all_event_ids = <<"evt-1", "evt-1">>
    /\ new_event_ids = <<"evt-1">>
    /\ Len(requested) = 3

\* C29 as claimed: main accepts both run modes, so no configuration ends in
\* the refusal of lines 1696-1699.
C29_BothRunModesAccepted ==
    ppc # "rejected"

(***************************************************************************)
(* Claims about team resolution (checked under SpecResolve)                *)
(***************************************************************************)
\* C12: a call of get_or_create_team fails only in strict mode and only when
\* no candidate and no fuzzy lookup matched; in permissive mode a call for
\* which nothing matched returns the id of a row of teams whose canonical
\* name is the normalized raw name.
C12_PermissiveNeverUnresolved ==
    \A c \in Resolvers :
        resolver[c].pc = "done"
            => /\ resolver[c].result = Err
                    => (config.strict_team_matching /\ resolver[c].path = "audit")
               /\ ~config.strict_team_matching => resolver[c].result # Err
               /\ (~config.strict_team_matching /\ resolver[c].path = "insert")
                    => \E t \in database.teams :
                          /\ t.id = resolver[c].result
                          /\ t.canonical_name = normalize_team_name(resolver[c].team_name)

\* a permissive call for an unknown name has returned the id of the new team
C12_Witness ==
    /\ ~config.strict_team_matching
    /\ resolver["r1"].pc = "done"
    /\ resolver["r1"].team_name = S_FloridaAMFL
    /\ resolver["r1"].path = "insert"
    /\ [id |-> resolver["r1"].result, canonical_name |-> S_FloridaAM] \in database.teams

\* C13: in strict mode a call for which nothing matched writes one thing, the
\* audit row with resolved_name NULL, has_ratings false and the caller's
\* context, at the end of team_resolution_audit; teams and team_aliases stay
\* as they were and the call returns Err.
C13_StrictUnresolvedAudits ==
    /\ [](\A c \in Resolvers :
             /\ (config.strict_team_matching /\ resolver[c].pc \in {"strict", "fuzzy", "audit"})
                   => resolver[c].wrote = <<>>
             /\ config.strict_team_matching
                   => resolver[c].pc \notin {"insert", "select", "alias"}
             /\ (resolver[c].pc = "done" /\ resolver[c].path = "audit")
                   => /\ resolver[c].result = Err
                      /\ resolver[c].wrote = <<"team_resolution_audit">>)
    /\ [][\A c \in Resolvers :
             (resolver[c].pc = "audit" /\ resolver'[c].pc = "done")
               => /\ database'.team_resolution_audit =
                       Append(database.team_resolution_audit,
                              [input_name |-> resolver[c].team_name,
                               resolved_name |-> NullName,
                               source |-> "the_odds_api",
                               context |-> resolver[c].context,
                               has_ratings |-> FALSE])
                  /\ database'.teams = database.teams
                  /\ database'.team_aliases = database.team_aliases
                  /\ resolver'[c].result = Err]_vars

\* a strict call for an unknown away team has failed after its audit row
C13_Witness ==
    /\ config.strict_team_matching
    /\ resolver["r2"].pc = "done"
    /\ resolver["r2"].team_name = S_FloridaAM
    /\ resolver["r2"].result = Err
    /\ \E i \in DOMAIN database.team_resolution_audit :
          /\ database.team_resolution_audit[i].input_name = S_FloridaAM
          /\ database.team_resolution_audit[i].context = "away_team"

\* C16: the calls of get_or_create_team for one name all return the same
\* thing, whatever calls for other names run before, between or beside them.
C16_SameNameSameId ==
    \A n \in ResolveNames : Cardinality(returned[n]) <= 1

\* three calls for one name have returned, the first of which created the team
C16_Witness ==
    /\ rcalls = 3
    /\ \A c \in Resolvers : resolver[c].pc = "done"
    /\ \A c \in Resolvers : resolver[c].team_name = S_FloridaAM
    /\ Cardinality(returned[S_FloridaAM]) = 1
    /\ \E t \in database.teams : t.canonical_name = S_FloridaAM

\* C34 (checked under SpecPriority): once a call for name n has returned team
\* e and n differs, ignoring case, from e's canonical name, the row (n,
\* 'the_odds_api') is in team_aliases; a later call for n adds no alias row;
\* no step removes an alias row or gives an
\* (alias, source) pair another team, and the pair stays unique.
C34_AliasesOnlyGrow ==
    /\ [](\A c \in Resolvers :
             LET r == resolver[c] IN
             (r.pc = "done" /\ r.result \notin {Err, Nil})
               => \A e \in database.teams :
                     (e.id = r.result
                        /\ to_lowercase(r.team_name) # to_lowercase(e.canonical_name))
                       => \E a \in database.team_aliases :
                             a.alias = r.team_name /\ a.source = "the_odds_api")
    /\ [][/\ database.team_aliases \subseteq database'.team_aliases
          /\ \A a, b \in database'.team_aliases :
                (a.alias = b.alias /\ a.source = b.source) => a = b
          /\ \A c \in Resolvers :
                (resolver[c].pc # "done" /\ resolver'[c].pc = "done"
                   /\ \E e \in database.teams :
                         /\ e.id \in returned[resolver[c].team_name]
                         /\ to_lowercase(resolver[c].team_name)
                               # to_lowercase(e.canonical_name))
                  => database'.team_aliases = database.team_aliases]_vars

\* both callers resolved "Duke Blue Devils" to the rated team Duke, one after
\* the other, and the store holds the one alias row the first of them wrote
C34_Witness ==
    /\ database.teams = SeededDb.teams
    /\ \A c \in Resolvers :
          /\ resolver[c].pc = "done"
          /\ resolver[c].team_name = S_DukeBlueDevils
          /\ resolver[c].result = 101
    /\ resolver["r1"].wrote = <<"team_aliases">>
    /\ resolver["r2"].wrote = <<>>
    /\ database.team_aliases =
          {[team_id |-> 101, alias |-> S_DukeBlueDevils, source |-> "the_odds_api"]}

\* C35: the list team_name_candidates returns holds no two entries that are
\* equal ignoring case; it is the generated list with every entry left out
\* that equals, ignoring case, one generated before it, in the same order;
\* and when the name is not blank its first entry is the trimmed name.
C35_CandidatesDeduped ==
    (namer.pc = "candidates" /\ namer.candidates # Panicked)
      => LET c == namer.candidates
             g == namer.generated
             firsts == {i \in DOMAIN g :
                          \A j \in 1..(i - 1) : to_lowercase(g[j]) # to_lowercase(g[i])}
             Nth(k) == CHOOSE i \in firsts : Cardinality({j \in firsts : j <= i}) = k
         IN  /\ \A i, j \in DOMAIN c :
                   to_lowercase(c[i]) = to_lowercase(c[j]) => i = j
             /\ Len(c) = Cardinality(firsts)
             /\ \A k \in DOMAIN c : c[k] = g[Nth(k)]
             /\ trim(namer.input) # <<>> => c[1] = trim(namer.input)

\* the candidates of " Tigers State" typed after a tab: the trimmed name
\* first, the repeated normalized name left out, then the abbreviated form
C35_Witness ==
    /\ namer.pc = "candidates"
    /\ namer.input = <<"tab", " ", "T", "i", "g", "e", "r", "s", " ", "S", "t", "a", "t", "e">>
    /\ Len(namer.generated) = 3
    /\ namer.candidates = << <<"T", "i", "g", "e", "r", "s", " ", "S", "t", "a", "t", "e">>,
                             <<"T", "i", "g", "e", "r", "s", " ", "S", "t", ".">> >>

\* C36 as claimed: the list team_name_candidates returns holds, for the
\* normalized name and for its State-to-St. variant alike, the name itself,
\* every name the mascot stripping makes of it, and the prefix expansion of
\* each of these (entries compared ignoring case).  Names with a character
\* whose lower-case form has another length are left to C19 and C37.
C36_VariantStrippedToo ==
    (/\ namer.pc = "candidates"
     /\ namer.candidates # Panicked
     /\ \A k \in DOMAIN namer.input : namer.input[k] \notin {"Kelvin", "Idot"})
      => LET Listed(s) ==
                 \E i \in DOMAIN namer.candidates :
                     to_lowercase(namer.candidates[i]) = to_lowercase(s)
             Variants(s) ==
                 /\ trim(s) # <<>> => Listed(trim(s))
                 /\ (trim(s) # <<>> /\ expand_prefix_abbrev(s) # <<>>)
                       => Listed(expand_prefix_abbrev(s))
             All(base, stripped) ==
                 (base # <<>> /\ stripped # Panicked)
                   => /\ Variants(base)
                      /\ \A i \in DOMAIN stripped : Variants(stripped[i])
             Both(cleaned, state_abbrev) ==
                 /\ All(cleaned, strip_mascot_suffixes(cleaned))
                 /\ All(state_abbrev, strip_mascot_suffixes(state_abbrev))
         IN  Both(namer.cleaned, replace(namer.cleaned, S_State, S_St))

\* C37 as claimed: a pass of strip_mascot_suffixes that shortens the name
\* removes from its end the longest known suffix that ends it after a space
\* and is not the whole name, with the whitespace before it; no pass leaves
\* the empty string; and the candidates of "Duke Blue Devils" and of
\* "North Carolina Tar Heels" hold "Duke" and "North Carolina".
C37_LongestSuffixRemoved ==
    /\ [][(namer.pc = "stripping" /\ namer'.pc = "stripping")
             => LET lowered == to_lowercase(namer.current)
                    known == {MASCOT_SUFFIXES[i] : i \in DOMAIN MASCOT_SUFFIXES}
                    ending == {m \in known :
                                 lowered # m /\ ends_with(lowered, <<" ">> \o m)}
                IN  \E m \in ending :
                       /\ \A o \in ending : Len(o) <= Len(m)
                       /\ namer'.current =
                             trim_end(SubSeq(namer.current, 1,
                                             Len(namer.current) - Len(m)))]_vars
    /\ [](namer.pc \in {"stripping", "stripped", "candidates"}
             => \A i \in DOMAIN namer.out : namer.out[i] # <<>>)
    /\ \E i \in DOMAIN team_name_candidates(S_DukeBlueDevils) :
          team_name_candidates(S_DukeBlueDevils)[i] = S_Duke
    /\ \E i \in DOMAIN team_name_candidates(S_NorthCarolinaTarHeels) :
          team_name_candidates(S_NorthCarolinaTarHeels)[i] = S_NorthCarolina

\* C30 (checked under SpecPriority): a call that has chosen a team chose, of
\* what its lookups returned: the rated team of the earliest candidate with
\* a rated match, and then no later candidate and no fuzzy lookup was tried;
\* otherwise every candidate was tried and the fuzzy lookup was made, and the
\* choice is its rated match, else the unrated match of the earliest
\* candidate that had one, else the unrated fuzzy match; a call for which no
\* lookup returned a team chose none.
C30_RatedBeforeUnrated ==
    \A c \in Resolvers :
        LET r       == resolver[c]
            rated   == {i \in DOMAIN r.hits : r.hits[i].has_ratings}
            unrated == {i \in DOMAIN r.hits :
                          r.hits[i] # NoTeam /\ ~r.hits[i].has_ratings}
            First(s) == CHOOSE i \in s : \A j \in s : i <= j
            chosen  == IF r.pc = "done" THEN r.result ELSE r.team.id
        IN  /\ r.fuzzy # <<>> =>
                  (rated = {} /\ Len(r.hits) = Len(Candidates(r.team_name)))
            /\ r.pc \in {"attach", "audit", "insert", "select", "alias", "done"} =>
                  IF rated # {}
                    THEN /\ chosen = r.hits[First(rated)].id
                         /\ Len(r.hits) = First(rated)
                         /\ r.fuzzy = <<>>
                         /\ r.path = "rated"
                  ELSE /\ r.fuzzy # <<>>
                       /\ IF r.fuzzy[1].has_ratings
                            THEN chosen = r.fuzzy[1].id /\ r.path = "rated"
                          ELSE IF unrated # {}
                            THEN chosen = r.hits[First(unrated)].id /\ r.path = "unrated"
                          ELSE IF r.fuzzy[1] # NoTeam
                            THEN chosen = r.fuzzy[1].id /\ r.path = "unrated"
                          ELSE r.path \in {"insert", "audit"}

\* a call returned the rated team of its second candidate after its first
\* candidate matched an unrated team
C30_Witness ==
    \E c \in Resolvers :
        /\ resolver[c].pc = "done"
        /\ resolver[c].team_name = S_DukeBlueDevils
        /\ Len(resolver[c].hits) = 2
        /\ resolver[c].hits[1].id = 104
        /\ resolver[c].fuzzy = <<>>
        /\ resolver[c].result = 101

\* further cases of C30 that are reached: the rated fuzzy match is returned
\* over an unrated candidate match, and an unrated fuzzy match is returned
\* when nothing else matched
PriorityFuzzyRated ==
    \E c \in Resolvers :
        /\ resolver[c].pc = "done"
        /\ resolver[c].hits # <<>>
        /\ resolver[c].hits[1].id = 103
        /\ resolver[c].result = 105

PriorityFuzzyUnrated ==
    \E c \in Resolvers :
        /\ resolver[c].pc = "done"
        /\ \A i \in DOMAIN resolver[c].hits : resolver[c].hits[i] = NoTeam
        /\ resolver[c].result = 106

\* C17: when two permissive calls whose names normalize to one canonical name
\* both find no match and both reach the insert, teams holds one row with
\* that canonical name afterwards and both calls return the id of that row.
C17_ConcurrentCreateOneRow ==
    \A c, d \in Resolvers :
        (/\ c # d
         /\ resolver[c].pc = "done" /\ resolver[c].path = "insert"
         /\ resolver[d].pc = "done" /\ resolver[d].path = "insert"
         /\ normalize_team_name(resolver[c].team_name)
               = normalize_team_name(resolver[d].team_name))
            => /\ resolver[c].result = resolver[d].result
               /\ Cardinality({t \in database.teams :
                     t.canonical_name = normalize_team_name(resolver[c].team_name)}) = 1
               /\ \E t \in database.teams :
                     /\ t.id = resolver[c].result
                     /\ t.canonical_name = normalize_team_name(resolver[c].team_name)

\* the two calls raced: the insert of one of them met the row of the other
C17_Witness ==
    /\ resolver["r1"].pc = "done" /\ resolver["r1"].path = "insert"
    /\ resolver["r2"].pc = "done" /\ resolver["r2"].path = "insert"
    /\ resolver["r1"].team_name = S_FloridaAM
    /\ resolver["r2"].team_name = S_FloridaAMFL
    /\ resolver["r2"].conflict
    /\ resolver["r2"].result = resolver["r1"].team_id

(***************************************************************************)
(* Claims about the name functions (checked under SpecNames)               *)
(***************************************************************************)
\* C18: the result of normalize_lookup_name holds no parenthesis, no period,
\* no hyphen and no dash, does not begin or end with whitespace and has no
\* two whitespace characters in a row; applied to its own result the
\* function returns that result.
C18_NormalizeIdempotentClean ==
    /\ [](namer.pc = "normalized"
            => /\ \A i \in DOMAIN namer.name :
                     namer.name[i] \notin {"(", ")", ".", "-", "ndash", "mdash"}
               /\ namer.name # <<>>
                     => /\ namer.name[1] \notin {" ", "tab"}
                        /\ namer.name[Len(namer.name)] \notin {" ", "tab"}
               /\ \A i \in 1..(Len(namer.name) - 1) :
                     ~(namer.name[i] \in {" ", "tab"} /\ namer.name[i + 1] \in {" ", "tab"}))
    /\ [][(namer.pc = "normalized" /\ namer'.pc = "normalized")
             => namer'.name = namer.name]_vars

\* a name between a tab and a hyphen was normalized twice
C18_Witness ==
    /\ namer.pc = "normalized"
    /\ namer.applied = 2
    /\ namer.input = <<"tab", " ", "T", "i", "g", "e", "r", "s", "-">>
    /\ namer.name = <<"T", "i", "g", "e", "r", "s">>

\* C19: strip_mascot_suffixes returns for every name; each pass of its loop
\* that goes round leaves a non-empty current that is shorter than before,
\* and it goes round at most as often as the name has whitespace-separated
\* tokens.
C19_StripTerminatesShrinking ==
    /\ [](namer.pc # "panicked")
    /\ [](namer.pc \in {"stripping", "stripped"}
            => Len(namer.out) <= Len(split_whitespace(namer.input)))
    /\ [][(namer.pc = "stripping" /\ namer'.pc = "stripping")
             => /\ namer'.current # <<>>
                /\ len(namer'.current) < len(namer.current)
                /\ Len(namer'.current) < Len(namer.current)]_vars

\* C20: when the normalized name does not end in a space and a mascot suffix,
\* strip_mascot_suffixes makes nothing of it and no candidate of
\* team_name_candidates is a beginning of the normalized name cut short; no
\* candidate is "Florida".
C20_NoSuffixNoShortening ==
    (/\ namer.pc = "candidates"
     /\ \E lowered \in {to_lowercase(namer.cleaned)} :
           ~\E i \in DOMAIN MASCOT_SUFFIXES :
               ends_with(lowered, <<" ">> \o MASCOT_SUFFIXES[i]))
        => /\ namer.out = <<>>
           /\ namer.candidates # Panicked
           /\ \A j \in DOMAIN namer.candidates :
                 /\ ~(/\ Len(namer.candidates[j]) < Len(namer.cleaned)
                      /\ to_lowercase(namer.candidates[j])
                            = SubSeq(to_lowercase(namer.cleaned), 1,
                                     Len(to_lowercase(namer.candidates[j]))))
                 /\ namer.candidates[j] # <<"F", "l", "o", "r", "i", "d", "a">>

\* the candidates of "Florida A&M (" are the name as typed and "Florida A&M"
C20_Witness ==
    /\ namer.pc = "candidates"
    /\ namer.input = S_FloridaAM \o <<" ">> \o <<"(">>
    /\ namer.cleaned = S_FloridaAM
    /\ namer.out = <<>>
    /\ namer.candidates = <<S_FloridaAM \o <<" ", "(">>, S_FloridaAM>>

(***************************************************************************)
(* Claims about extract_odds_snapshot (checked under SpecExtract)          *)
(***************************************************************************)
\* C21: extract_odds_snapshot returns None exactly for the keys other than
\* spreads, totals, spreads_h1, totals_h1, spreads_h2 and totals_h2; for these
\* six it returns a snapshot of the market type the key begins with and the
\* period its ending names, whatever the outcomes, a spread whose lines are
\* more than 0.5 away from cancelling included.
C21_ExtractByKey ==
    extractor.pc = "done"
        => /\ extractor.result = <<>>
                <=> extractor.key \notin {"spreads", "totals", "spreads_h1",
                                          "totals_h1", "spreads_h2", "totals_h2"}
           /\ extractor.result # <<>>
                => /\ Len(extractor.result) = 1
                   /\ extractor.result[1].market_type =
                        (IF extractor.key \in {"spreads", "spreads_h1", "spreads_h2"}
                           THEN "spreads" ELSE "totals")
                   /\ extractor.result[1].period =
                        (IF extractor.key \in {"spreads", "totals"} THEN "full"
                         ELSE IF extractor.key \in {"spreads_h1", "totals_h1"} THEN "1h"
                         ELSE "2h")

\* a first-half spread of -3.0 against +7.0 was extracted, with the warning
C21_Witness ==
    /\ extractor.pc = "done"
    /\ extractor.key = "spreads_h1"
    /\ extractor.warned
    /\ extractor.result # <<>>
    /\ extractor.result[1].home_line = -6
    /\ extractor.result[1].away_line = 14
    /\ extractor.result[1].period = "1h"

\* C38: in the snapshot of a spreads market the home fields are the point and
\* price of the last outcome named exactly as the home team and the away
\* fields those of the last outcome of any other name; in the snapshot of a
\* totals market total_line and over_price are the point and price of the
\* last outcome named "Over" and under_price is the price of the last one
\* named "Under"; every other line and price field is empty, as is each of
\* these when no such outcome is listed.
C38_OutcomeFields ==
    (extractor.pc = "done" /\ extractor.result # <<>>)
      => LET outs == extractor.outcomes
             Last(rows) == CHOOSE i \in rows : \A j \in rows : j <= i
             Point(rows) == IF rows = {} THEN NoValue ELSE outs[Last(rows)].point
             Price(rows) == IF rows = {} THEN NoValue ELSE outs[Last(rows)].price
             Named(name) == {i \in DOMAIN outs : outs[i].name = name}
             Others(name) == {i \in DOMAIN outs : outs[i].name # name}
             Spreads(s) ==
                 /\ s.home_line = Point(Named(S_DukeBlueDevils))
                 /\ s.home_price = Price(Named(S_DukeBlueDevils))
                 /\ s.away_line = Point(Others(S_DukeBlueDevils))
                 /\ s.away_price = Price(Others(S_DukeBlueDevils))
                 /\ s.total_line = NoValue
                 /\ s.over_price = NoValue
                 /\ s.under_price = NoValue
             Totals(s) ==
                 /\ s.total_line = Point(Named(S_Over))
                 /\ s.over_price = Price(Named(S_Over))
                 /\ s.under_price = Price(Named(S_Under))
                 /\ s.home_line = NoValue
                 /\ s.home_price = NoValue
                 /\ s.away_line = NoValue
                 /\ s.away_price = NoValue
             Fields(s) ==
                 /\ s.market_type \in {"spreads", "totals"}
                 /\ s.market_type = "spreads" => Spreads(s)
                 /\ s.market_type = "totals" => Totals(s)
         IN  Fields(extractor.result[1])

\* a totals market that lists "Under" with a point before "over" without the
\* capital: only under_price is set
C38_Witness ==
    /\ extractor.pc = "done"
    /\ extractor.key = "totals_h2"
    /\ extractor.outcomes =
          <<[name |-> S_Under, point |-> 14, price |-> -110],
            [name |-> to_lowercase(S_Over), point |-> 14, price |-> -110]>>
    /\ extractor.result # <<>>
    /\ extractor.result[1].under_price = -110
    /\ extractor.result[1].total_line = NoValue
    /\ extractor.result[1].over_price = NoValue

(***************************************************************************)
(* Claims about the health state                                           *)
(***************************************************************************)
\* C39 as claimed (checked under SpecHealthLocks): no answer of health_handler
\* given while a record_success call is under way shows the time or the
\* count that call writes together with an error counter that is not reset.
C39_NoMixedAnswer ==
    [][(answer'.seq # answer.seq /\ healthCalls.record_success # "idle")
         => ~(/\ \/ answer'.last_poll = healthCalls.time
                 \/ (/\ healthCalls.record_success = "error_count"
                     /\ answer'.last_poll_count = healthCalls.count)
              /\ answer'.consecutive_errors # 0)]_vars

\* C25 (checked under SpecPoll): when the cycle has ended the health state
\* tells of it: after a cycle that went well last_poll_time is set,
\* last_poll_count is the count the cycle returned and error_count is 0;
\* after a cycle that failed error_count is one more than before, which is 1.
C25_HealthFollowsCycle ==
    /\ ppc = "done"
          => /\ health.last_poll_time # NoTime
             /\ health.last_poll_count = ret
             /\ health.error_count = 0
    /\ ppc = "failed" => health.error_count = 1

\* C26 (checked under SpecHealth): an answer says "degraded" exactly when the
\* error count it reports is above 5 and "ok" otherwise, its status code is
\* 503 exactly when that count is above 10 and 200 otherwise, so a 503 always
\* says "degraded"; answering reports the state as it is and leaves it as it
\* is.
C26_HealthAnswer ==
    /\ [](answer.seq > 0
            => /\ answer.status = "degraded" <=> answer.consecutive_errors > 5
               /\ answer.status = "ok" <=> answer.consecutive_errors <= 5
               /\ answer.http_status = 503 <=> answer.consecutive_errors > 10
               /\ answer.http_status = 200 <=> answer.consecutive_errors <= 10
               /\ answer.http_status = 503 => answer.status = "degraded")
    /\ [][answer'.seq # answer.seq
             => /\ health' = health
                /\ answer'.consecutive_errors = health.error_count
                /\ answer'.last_poll = health.last_poll_time
                /\ answer'.last_poll_count = health.last_poll_count]_vars

\* after eleven errors in a row the answer is 503 and "degraded", after a
\* success before them
C26_Witness ==
    /\ answer.seq = 2
    /\ answer.http_status = 503
    /\ answer.status = "degraded"
    /\ answer.consecutive_errors = 11
    /\ answer.last_poll_count = 2

Init ==
    /\ InitCache /\ InitClock /\ InitTracker /\ InitFetch /\ InitPoll /\ InitResolve
    /\ InitNames /\ InitExtract /\ InitStorer /\ InitHealth /\ InitGamer

\* The cache, the tracker and the fetch functions read neither the feed nor
\* the flags of the configuration; the cache, the tracker and the cycle do
\* not read the configured limit.  Their specifications fix what they do not
\* read.
InitAnyStore == Init /\ rate_limit_per_minute = 1

InitOneLimit == InitAnyStore /\ database = SeededDb

InitDefaults ==
    /\ config = DefaultConfig
    /\ \A k \in Keys : feed[k].home_team = S_DukeBlueDevils

InitComponent == InitOneLimit /\ InitDefaults

InitLimits == Init /\ InitDefaults /\ database = SeededDb

SpecCache == InitComponent /\ [][NextCache]_vars

SpecTracker == InitComponent /\ [][NextTracker]_vars

SpecFetch == InitLimits /\ [][NextFetch]_vars

\* get_or_create_team reads one flag of the configuration
InitStore ==
    /\ InitOneLimit
    /\ \A k \in Keys : feed[k].home_team = S_DukeBlueDevils
    /\ config.enable_full /\ config.enable_h1 /\ config.enable_h2 /\ config.run_once

SpecResolve == InitStore /\ [][NextResolve]_vars

\* get_or_create_team over the store of the other specifications and over a
\* store in which rated and unrated teams match the same names
InitStores ==
    /\ InitAnyStore
    /\ \A k \in Keys : feed[k].home_team = S_DukeBlueDevils
    /\ config.enable_full /\ config.enable_h1 /\ config.enable_h2 /\ config.run_once

SpecPriority == InitStores /\ [][NextResolve]_vars

SpecPoll == InitOneLimit /\ [][NextPoll]_vars

\* get_or_create_game reads one flag of the configuration
SpecGames == InitStore /\ [][NextGames]_vars

\* store_snapshots called with batch after batch
SpecStore == InitComponent /\ [][NextStore]_vars

\* HealthState written by its two methods and read by health_handler
SpecHealth == InitComponent /\ [][NextHealth]_vars

\* record_success and health_handler, lock by lock
SpecHealthLocks == InitComponent /\ [][NextHealthLocks]_vars

\* extract_odds_snapshot applied to markets
SpecExtract == InitComponent /\ [][NextExtract]_vars

\* the name functions applied to typed names
SpecNames == InitComponent /\ [][NextNames]_vars

====
